---- MODULE Spec2Model ----
(***************************************************************************)
(* The on-chain governance core of the Anti-Phishing dApp: the             *)
(* ProposalVoting contract (proposal lifecycle), the BlacklistRegistry     *)
(* contract it drives, and the GovernanceToken balances it reads.          *)
(* Every external function is one atomic action; a call whose require      *)
(* fails reverts, i.e. leaves the whole chain state as it was.             *)
(***************************************************************************)
EXTENDS Integers, Sequences, FiniteSets, TLC

\* ------------------------------------------------------------------ bounds
\* Direct calls of the registry are made while fewer than MaxEvents events
\* were emitted (caps the length of the chain's event log where calls repeat).
MaxEvents == 3
\* How many POST /claim requests arrive.
MaxClaims == 2
\* Proposals that may be created where both users make every call of the
\* lifecycle (caps nextProposalId).
MaxProposals == 1
\* Proposals that may be created in a series, where only the deployer votes.
MaxSeries == 2
\* The block timestamp runs over 0..MaxTime.
MaxTime == 1
\* The lists handed to the batch checks have up to MaxBatch elements.
MaxBatch == 2
\* Tokens in circulation (the token gate is compared against 0..TokenSupply).
TokenSupply == 1

\* --------------------------------------------------------------- universe
ZeroAddress == "0x0"
Users == {"alice", "bob"}
\* The deployer of the three contracts, first owner of each.
Deployer == "alice"
\* Accounts that ownership is handed to, and the zero address.
OwnerInputs == {"alice", "bob", ZeroAddress}
\* Accounts that receive token transfers.
TokenReceivers == {"alice", "bob"}
\* The address of the ProposalVoting contract itself (msg.sender of its
\* calls into the registry).
ProposalVotingAddress == "ProposalVoting"
\* The address of the BlacklistRegistry contract, and the address of another
\* contract that the engine may be pointed at.
BlacklistRegistryAddress == "BlacklistRegistry"
OtherRegistryAddress == "OtherRegistry"
\* The arguments of updateBlacklistRegistry.
RegistryInputs == {ZeroAddress, BlacklistRegistryAddress, OtherRegistryAddress}
\* The arguments of updateProposalVotingContract.
AuthorizedCallerInputs == {ZeroAddress, "alice", "bob", ProposalVotingAddress}
\* The _proposer and _remover arguments of direct calls of the registry.
ProposerInputs == {ZeroAddress, "alice", "bob"}
UrlInputs == {"", "evil.io"}
AddressInputs == {ZeroAddress, "carol"}
\* The keys of the URL mapping where a URL is also proposed whose text is the
\* textual form of an address.
UrlKeys == UrlInputs \cup {"carol"}
DescriptionInputs == {"", "phishing"}
\* Requested voting durations: below, at and above the minimum voting periods
\* 1 and 2 that the owner configures.
DurationInputs == {0, 1, 2}
\* The parameter triples <<minVotingPeriod, minVotesForApproval,
\* approvalMajorityPercentage>> the owner may try to set; a zero period and a
\* percentage outside 1..100 are refused.
ParameterInputs == {<<1, 1, 51>>, <<2, 1, 50>>, <<0, 1, 51>>, <<1, 1, 101>>}

\* The accounts that vote where three voters are needed.
Voters == {"alice", "bob", "carol"}
\* The thresholds set there: minimum yes-votes 1..3, percentages around the
\* ratios 1/3, 1/2 and 2/3, and a refused percentage.
ThresholdInputs == {<<1, v, m>> : v \in 1..3, m \in {34, 50, 51, 67, 101}}

\* A timestamp that is null, undefined or not a number, and a block that the
\* provider does not return.
NoTimestamp == -1
\* What new Date() returns, in milliseconds.
WallClockInputs == {5000, 6000}
\* The payloads that the handlers are run on: the keys are those of one
\* proposal, two voters, a URL and an address; a timestamp is a number or, for
\* the URL, the proposal and the second voter, unusable.
EntryPayloads(name) ==
    {[name |-> name, type |-> t[1], value |-> IF t[1] = 0 THEN "evil.io" ELSE "",
      address |-> IF t[1] = 0 THEN ZeroAddress ELSE "carol", timestamp |-> t[2],
      proposer |-> "alice"] : t \in {<<0, 1>>, <<0, NoTimestamp>>, <<1, 1>>}}
ProposalCreatedPayloads ==
    {[name |-> "ProposalCreated", proposalId |-> 1, type |-> 0, url |-> "evil.io",
      address |-> ZeroAddress, description |-> "phishing", proposer |-> "alice",
      creationTimestamp |-> ts, votingPeriodEnd |-> 1] : ts \in {0, NoTimestamp}}
VoteCastPayloads ==
    {[name |-> "VoteCast", proposalId |-> 1, voter |-> t[1], support |-> t[2],
      yesVotes |-> IF t[2] THEN 1 ELSE 0, noVotes |-> IF t[2] THEN 0 ELSE 1,
      blockTimestamp |-> t[3]] :
        t \in {<<"alice", TRUE, 1>>, <<"alice", FALSE, 1>>, <<"bob", TRUE, NoTimestamp>>}}
ProposalStatusUpdatedPayloads ==
    {[name |-> "ProposalStatusUpdated", proposalId |-> 1, oldStatus |-> 0, newStatus |-> n] :
        n \in {1, 2}}
ProposalExecutedPayloads ==
    {[name |-> "ProposalExecuted", proposalId |-> 1, type |-> 0, url |-> "evil.io",
      address |-> ZeroAddress, executor |-> "alice"]}
Payloads ==
    EntryPayloads("EntryAdded") \cup EntryPayloads("EntryRemoved") \cup ProposalCreatedPayloads
        \cup VoteCastPayloads \cup ProposalStatusUpdatedPayloads \cup ProposalExecutedPayloads

\* The lists of up to MaxBatch keys.
BatchInputs(keys) == UNION {[1..n -> keys] : n \in 0..MaxBatch}

ProposalType == {"AddURL", "AddAddress", "RemoveURL", "RemoveAddress"}
ProposalStatus == {"Active", "Approved", "Rejected", "Executed"}

\* The identifiers that the longest run assigns.
ProposalIds == 1..(IF MaxSeries >= MaxProposals THEN MaxSeries ELSE MaxProposals)

VARIABLES
    now,                        \* block.timestamp
    balanceOf,                  \* GovernanceToken balances
    proposals,                  \* ProposalVoting.proposals
    nextProposalId,             \* ProposalVoting.nextProposalId
    minVotingPeriod,
    minVotesForApproval,
    approvalMajorityPercentage,
    minProposerTokenHoldings,
    owner,                      \* ProposalVoting.owner
    blacklistedURLs,            \* BlacklistRegistry.blacklistedURLs
    blacklistedAddresses,       \* BlacklistRegistry.blacklistedAddresses
    proposalVotingContract,     \* BlacklistRegistry.proposalVotingContract
    registryOwner,              \* BlacklistRegistry.owner
    blacklistRegistry,          \* ProposalVoting.blacklistRegistry
    returnedIds,                \* history: the ids returned by createProposal, in call order
    batchResult,                \* the last call of a view: its input and what it returned
    mirror,                     \* the indexer's MongoDB collections
    chainLog,                   \* the events emitted on chain, in emission order
    cursor,                     \* how many events of chainLog the subscription has passed
    running,                    \* whether the indexer process is up
    inflight,                   \* the handlers that are waiting on an await
    handled,                    \* history: the positions of chainLog whose handler was started
    faucetClaims,               \* the faucet's FaucetClaim collection
    claimRequests,              \* the POST /claim requests and where each one stands
    minted                      \* history: the mint transactions of the faucet that were mined

engineVars == <<proposals, nextProposalId, minVotingPeriod, minVotesForApproval,
                approvalMajorityPercentage, minProposerTokenHoldings, owner,
                blacklistRegistry>>
registryVars == <<blacklistedURLs, blacklistedAddresses, proposalVotingContract,
                  registryOwner>>
chainVars == <<now, balanceOf, engineVars, registryVars>>
\* What is kept outside the three contracts.
indexerVars == <<mirror, chainLog, cursor, running, inflight, handled>>
faucetVars == <<faucetClaims, claimRequests, minted>>
offChainVars == <<batchResult, indexerVars, faucetVars>>
vars == <<chainVars, returnedIds, offChainVars>>

\* ------------------------------------------------------------- data model
\* A storage slot of the proposals mapping that was never written.
EmptyProposal ==
    [id |-> 0, proposalType |-> "AddURL", urlValue |-> "", addressValue |-> ZeroAddress,
     description |-> "", creationTimestamp |-> 0, votingPeriodEnd |-> 0,
     proposer |-> ZeroAddress, yesVotes |-> 0, noVotes |-> 0, status |-> "Active",
     hasVoted |-> {}, totalVoters |-> 0]

\* A storage slot of a registry mapping that was never written, or was deleted.
EmptyEntry ==
    [entryType |-> "URL", timestamp |-> 0, proposer |-> ZeroAddress, exists |-> FALSE]

\* No batch check was made yet.
NoBatch == [call |-> "none", input |-> <<>>, output |-> <<>>]

\* The three collections before any document was written.
EmptyMirror == [entries |-> <<>>, proposals |-> <<>>, votes |-> <<>>]

\* A POST /claim request that has not arrived.
NoRequest == [userAddress |-> "", at |-> "new"]

\* The faucet before any request: no claim is recorded, nothing was minted.
FaucetIdle ==
    /\ faucetClaims = {}
    /\ claimRequests = [r \in 1..MaxClaims |-> NoRequest]
    /\ minted = <<>>

\* The indexer listening from the deployment on, with nothing emitted yet.
IndexerIdle ==
    /\ mirror = EmptyMirror
    /\ chainLog = <<>>
    /\ cursor = 0
    /\ running = TRUE
    /\ inflight = {}
    /\ handled = {}

\* A reverted transaction: nothing on chain changes.
Revert == UNCHANGED <<chainVars, returnedIds>>

\* ------------------------------------------------------------------- Init
Init ==
    /\ now = 0
    /\ balanceOf = [a \in Users |-> IF a = Deployer THEN TokenSupply ELSE 0]
    /\ proposals = [i \in ProposalIds |-> EmptyProposal]
    /\ nextProposalId = 1
    /\ minVotingPeriod = 1
    /\ minVotesForApproval = 1
    /\ approvalMajorityPercentage = 51
    /\ minProposerTokenHoldings = 1
    /\ owner = Deployer
    /\ blacklistedURLs = [u \in UrlInputs |-> EmptyEntry]
    /\ blacklistedAddresses = [a \in AddressInputs |-> EmptyEntry]
    /\ proposalVotingContract = ProposalVotingAddress
    /\ registryOwner = Deployer
    /\ blacklistRegistry = BlacklistRegistryAddress
    /\ returnedIds = <<>>
    /\ batchResult = NoBatch
    /\ FaucetIdle
    /\ IndexerIdle

\* ------------------------------------------------------------ environment
\* A later block: the timestamp grows.
Tick ==
    /\ now < MaxTime
    /\ now' = now + 1
    /\ UNCHANGED <<balanceOf, engineVars, registryVars, returnedIds>>

\* GovernanceToken.batchTransfer with one recipient: moves tokens from the
\* caller, and reverts on the zero recipient or an insufficient balance.
BatchTransfer(sender, to, amount) ==
    IF to # ZeroAddress /\ balanceOf[sender] >= amount
    THEN /\ balanceOf' = [a \in Users |->
                            IF a = sender /\ a = to THEN balanceOf[a]
                            ELSE IF a = sender THEN balanceOf[a] - amount
                            ELSE IF a = to THEN balanceOf[a] + amount
                            ELSE balanceOf[a]]
         /\ UNCHANGED <<now, engineVars, registryVars, returnedIds>>
    ELSE Revert

\* --------------------------------------------------- BlacklistRegistry
\* Mutant: the registry's owner may call as well.
OnlyProposalVotingContractOrOwner(sender) ==
    sender = proposalVotingContract \/ sender = registryOwner

\* modifier onlyProposalVotingContract
OnlyProposalVotingContract(sender) == sender = proposalVotingContract

\* Mutant: addURL without the already-blacklisted require.
CanAddURLAgain(sender, url, proposer) ==
    /\ sender = proposalVotingContract
    /\ Len(url) > 0
    /\ proposer # ZeroAddress

\* The requires of addURL.
CanAddURL(sender, url, proposer) ==
    /\ OnlyProposalVotingContract(sender)
    /\ Len(url) > 0
    /\ ~blacklistedURLs[url].exists
    /\ proposer # ZeroAddress

\* The storage write of addURL.
AddURLEffect(url, proposer) ==
    [blacklistedURLs EXCEPT ![url] =
        [entryType |-> "URL", timestamp |-> now, proposer |-> proposer, exists |-> TRUE]]

\* Mutant: addAddress without the already-blacklisted require.
CanAddAddressAgain(sender, address, proposer) ==
    /\ OnlyProposalVotingContract(sender)
    /\ address # ZeroAddress
    /\ proposer # ZeroAddress

\* The requires of addAddress.
CanAddAddress(sender, address, proposer) ==
    /\ OnlyProposalVotingContract(sender)
    /\ address # ZeroAddress
    /\ ~blacklistedAddresses[address].exists
    /\ proposer # ZeroAddress

\* The storage write of addAddress.
AddAddressEffect(address, proposer) ==
    [blacklistedAddresses EXCEPT ![address] =
        [entryType |-> "Address", timestamp |-> now, proposer |-> proposer, exists |-> TRUE]]

\* Mutant: removeURL without the not-blacklisted require.
CanRemoveURLAbsent(sender, url, remover) ==
    /\ sender = proposalVotingContract
    /\ Len(url) > 0
    /\ remover # ZeroAddress

\* The requires of removeURL.
CanRemoveURL(sender, url, remover) ==
    /\ OnlyProposalVotingContract(sender)
    /\ Len(url) > 0
    /\ blacklistedURLs[url].exists
    /\ remover # ZeroAddress

\* The storage write of removeURL: delete resets the slot.
RemoveURLEffect(url) == [blacklistedURLs EXCEPT ![url] = EmptyEntry]

\* The requires of removeAddress.
CanRemoveAddress(sender, address, remover) ==
    /\ OnlyProposalVotingContract(sender)
    /\ address # ZeroAddress
    /\ blacklistedAddresses[address].exists
    /\ remover # ZeroAddress

\* The storage write of removeAddress: delete resets the slot.
RemoveAddressEffect(address) == [blacklistedAddresses EXCEPT ![address] = EmptyEntry]

\* addURL, called in a transaction of its own.
AddURL(sender, url, proposer) ==
    IF CanAddURL(sender, url, proposer)
    THEN /\ blacklistedURLs' = AddURLEffect(url, proposer)
         /\ UNCHANGED <<now, balanceOf, engineVars, blacklistedAddresses,
                        proposalVotingContract, registryOwner, returnedIds>>
    ELSE Revert

\* addAddress, called in a transaction of its own.
AddAddress(sender, address, proposer) ==
    IF CanAddAddress(sender, address, proposer)
    THEN /\ blacklistedAddresses' = AddAddressEffect(address, proposer)
         /\ UNCHANGED <<now, balanceOf, engineVars, blacklistedURLs,
                        proposalVotingContract, registryOwner, returnedIds>>
    ELSE Revert

\* removeURL, called in a transaction of its own.
RemoveURL(sender, url, remover) ==
    IF CanRemoveURL(sender, url, remover)
    THEN /\ blacklistedURLs' = RemoveURLEffect(url)
         /\ UNCHANGED <<now, balanceOf, engineVars, blacklistedAddresses,
                        proposalVotingContract, registryOwner, returnedIds>>
    ELSE Revert

\* removeAddress, called in a transaction of its own.
RemoveAddress(sender, address, remover) ==
    IF CanRemoveAddress(sender, address, remover)
    THEN /\ blacklistedAddresses' = RemoveAddressEffect(address)
         /\ UNCHANGED <<now, balanceOf, engineVars, blacklistedURLs,
                        proposalVotingContract, registryOwner, returnedIds>>
    ELSE Revert

isURLBlacklisted(url) == blacklistedURLs[url].exists

isAddressBlacklisted(address) == blacklistedAddresses[address].exists

\* modifier onlyOwner of the registry
OnlyRegistryOwner(sender) == sender = registryOwner

UpdateProposalVotingContract(sender, newProposalVotingContract) ==
    IF /\ OnlyRegistryOwner(sender)
       /\ newProposalVotingContract # ZeroAddress
       /\ newProposalVotingContract # proposalVotingContract
    THEN /\ proposalVotingContract' = newProposalVotingContract
         /\ UNCHANGED <<now, balanceOf, engineVars, blacklistedURLs, blacklistedAddresses,
                        registryOwner, returnedIds>>
    ELSE Revert

\* transferOwnership of the registry
RegistryTransferOwnership(sender, newOwner) ==
    IF OnlyRegistryOwner(sender) /\ newOwner # ZeroAddress /\ newOwner # registryOwner
    THEN /\ registryOwner' = newOwner
         /\ UNCHANGED <<now, balanceOf, engineVars, blacklistedURLs, blacklistedAddresses,
                        proposalVotingContract, returnedIds>>
    ELSE Revert

\* The bool[] that new bool[](length) allocates.
NewResults(length) == [k \in 1..length |-> FALSE]

\* Mutant: the keys read from the end of the list.
BatchEntryReversed(mapping, keys, i) == mapping[keys[Len(keys) - i]].exists

\* The read of loop index i (from 0) in the batch checks.
BatchEntry(mapping, keys, i) == mapping[keys[i + 1]].exists

\* The for loop of the batch checks, from index i on.
RECURSIVE BatchLoop(_, _, _, _)
BatchLoop(mapping, keys, i, results) ==
    IF i < Len(keys)
    THEN BatchLoop(mapping, keys, i + 1,
                   [results EXCEPT ![i + 1] = BatchEntry(mapping, keys, i)])
    ELSE results

batchCheckURLs(urls) == BatchLoop(blacklistedURLs, urls, 0, NewResults(Len(urls)))

batchCheckAddresses(addresses) ==
    BatchLoop(blacklistedAddresses, addresses, 0, NewResults(Len(addresses)))

\* A call of batchCheckURLs: a view, nothing on chain changes.
BatchCheckURLs(urls) ==
    /\ batchResult' = [call |-> "batchCheckURLs", input |-> urls,
                       output |-> batchCheckURLs(urls)]
    /\ UNCHANGED <<chainVars, returnedIds, indexerVars, faucetVars>>

\* A call of batchCheckAddresses: a view, nothing on chain changes.
BatchCheckAddresses(addresses) ==
    /\ batchResult' = [call |-> "batchCheckAddresses", input |-> addresses,
                       output |-> batchCheckAddresses(addresses)]
    /\ UNCHANGED <<chainVars, returnedIds, indexerVars, faucetVars>>

\* ------------------------------------------------------ ProposalVoting
\* Mutant: the deployer keeps the owner's rights after handing over.
OnlyOwnerOrDeployer(sender) == sender = owner \/ sender = Deployer

\* modifier onlyOwner
OnlyOwner(sender) == sender = owner

\* modifier proposalExists
ProposalExists(proposalId) == proposalId > 0 /\ proposalId < nextProposalId

\* Mutant: voting that does not close at the end of the voting period.
ProposalActiveAfterEnd(proposalId) ==
    proposals[proposalId].status = "Active"

\* modifier proposalActive
ProposalActive(proposalId) ==
    /\ proposals[proposalId].status = "Active"
    /\ now < proposals[proposalId].votingPeriodEnd

\* Mutant: resolution that does not look at the status.
ProposalReadyToResolveAnyStatus(proposalId) ==
    now >= proposals[proposalId].votingPeriodEnd

\* Mutant: resolution that does not wait for the end of the voting period.
ProposalReadyToResolveEarly(proposalId) ==
    proposals[proposalId].status = "Active"

\* modifier proposalReadyToResolve
ProposalReadyToResolve(proposalId) ==
    /\ proposals[proposalId].status = "Active"
    /\ now >= proposals[proposalId].votingPeriodEnd

IsAddType(type) == type = "AddURL" \/ type = "AddAddress"
IsRemoveType(type) == type = "RemoveURL" \/ type = "RemoveAddress"
IsURLType(type) == type = "AddURL" \/ type = "RemoveURL"
IsAddressType(type) == type = "AddAddress" \/ type = "RemoveAddress"

\* createProposal: the description and duration requires.
CreateInputOk(description, duration) == Len(description) > 0 /\ duration > 0

\* Mutant: createProposal without the owner gate of Remove proposals.
CreateAuthorizedTokenGateOnly(sender, type) ==
    IsAddType(type) => balanceOf[sender] >= minProposerTokenHoldings

\* createProposal: token gate of Add proposals, owner gate of Remove proposals.
CreateAuthorized(sender, type) ==
    /\ IsAddType(type) => balanceOf[sender] >= minProposerTokenHoldings
    /\ IsRemoveType(type) => sender = owner

\* Mutant: the requested duration taken as it is.
ActualVotingDurationUnclamped(duration) == duration

\* Mutant: the comparison inverted, so the duration is cut down to the minimum.
ActualVotingDurationCutDown(duration) ==
    IF duration > minVotingPeriod THEN minVotingPeriod ELSE duration

\* createProposal: the requested duration, raised to the contract's minimum.
ActualVotingDuration(duration) ==
    IF duration < minVotingPeriod THEN minVotingPeriod ELSE duration

\* Mutant: the target validation without the checks on the other field.
CreateTargetOkOneField(type, url, address) ==
    IF IsURLType(type) THEN Len(url) > 0
    ELSE IF IsAddressType(type) THEN address # ZeroAddress
    ELSE FALSE

\* createProposal: the target must match the proposal type.
CreateTargetOk(type, url, address) ==
    IF IsURLType(type) THEN Len(url) > 0 /\ address = ZeroAddress
    ELSE IF IsAddressType(type) THEN address # ZeroAddress /\ Len(url) = 0
    ELSE FALSE

\* createProposal: nextProposalId++ (the value after the increment).
IncrementProposalId(id) == id + 1

\* Mutant: a createProposal refused at the target validation keeps the id it took.
RevertedProposalIdKept(idBefore, idAfter) == idAfter

\* The value nextProposalId has after a createProposal that reverted: the
\* revert undoes the increment made before the target validation.
RevertedProposalId(idBefore, idAfter) == idBefore

\* createProposal: the record written to storage.
NewProposal(proposalId, sender, type, url, address, description, duration) ==
    [id |-> proposalId, proposalType |-> type, urlValue |-> url, addressValue |-> address,
     description |-> description, creationTimestamp |-> now,
     votingPeriodEnd |-> now + ActualVotingDuration(duration),
     proposer |-> sender, yesVotes |-> 0, noVotes |-> 0, status |-> "Active",
     hasVoted |-> {}, totalVoters |-> 0]

CreateProposal(sender, type, url, address, description, duration) ==
    LET proposalId == nextProposalId
        early == CreateInputOk(description, duration) /\ CreateAuthorized(sender, type)
        ok == early /\ CreateTargetOk(type, url, address)
    IN IF ok
       THEN /\ nextProposalId' = IncrementProposalId(nextProposalId)
            /\ proposals' = [proposals EXCEPT ![proposalId] =
                   NewProposal(proposalId, sender, type, url, address, description, duration)]
            /\ returnedIds' = Append(returnedIds, proposalId)
            /\ UNCHANGED <<now, balanceOf, minVotingPeriod, minVotesForApproval,
                           approvalMajorityPercentage, minProposerTokenHoldings, owner,
                           blacklistRegistry, registryVars>>
       ELSE /\ nextProposalId' =
                   IF early
                   THEN RevertedProposalId(nextProposalId, IncrementProposalId(nextProposalId))
                   ELSE nextProposalId
            /\ UNCHANGED <<now, balanceOf, proposals, minVotingPeriod, minVotesForApproval,
                           approvalMajorityPercentage, minProposerTokenHoldings, owner,
                           blacklistRegistry, registryVars, returnedIds>>

\* Mutant: votes weighted by the voter's token balance.
VoteEffectWeighted(p, sender, support) ==
    [p EXCEPT !.hasVoted = @ \cup {sender},
              !.totalVoters = @ + 1,
              !.yesVotes = IF support THEN @ + balanceOf[sender] ELSE @,
              !.noVotes = IF support THEN @ ELSE @ + balanceOf[sender]]

\* vote: the storage writes.
VoteEffect(p, sender, support) ==
    [p EXCEPT !.hasVoted = @ \cup {sender},
              !.totalVoters = @ + 1,
              !.yesVotes = IF support THEN @ + 1 ELSE @,
              !.noVotes = IF support THEN @ ELSE @ + 1]

\* Mutant: vote without the already-voted require.
NotYetVotedUnchecked(p, sender) == TRUE

\* vote: the require on the caller's earlier vote.
NotYetVoted(p, sender) == sender \notin p.hasVoted

Vote(sender, proposalId, support) ==
    IF /\ ProposalExists(proposalId)
       /\ ProposalActive(proposalId)
       /\ NotYetVoted(proposals[proposalId], sender)
    THEN /\ proposals' = [proposals EXCEPT ![proposalId] = VoteEffect(@, sender, support)]
         /\ UNCHANGED <<now, balanceOf, nextProposalId, minVotingPeriod, minVotesForApproval,
                        approvalMajorityPercentage, minProposerTokenHoldings, owner,
                        blacklistRegistry, registryVars, returnedIds>>
    ELSE Revert

\* Mutant: the percentage rounded up instead of down.
MeetsApprovalCriteriaRoundedUp(p) ==
    IF p.yesVotes >= minVotesForApproval /\ p.totalVoters > 0
    THEN ((p.yesVotes * 100) + p.totalVoters - 1) \div p.totalVoters >= approvalMajorityPercentage
    ELSE FALSE

\* endProposalAndExecute: meetsApprovalCriteria.
MeetsApprovalCriteria(p) ==
    IF p.yesVotes >= minVotesForApproval /\ p.totalVoters > 0
    THEN (p.yesVotes * 100) \div p.totalVoters >= approvalMajorityPercentage
    ELSE FALSE

\* endProposalAndExecute: the status written.
ResolvedStatus(p) == IF MeetsApprovalCriteria(p) THEN "Approved" ELSE "Rejected"

EndProposalAndExecute(sender, proposalId) ==
    IF ProposalExists(proposalId) /\ ProposalReadyToResolve(proposalId)
    THEN /\ proposals' = [proposals EXCEPT ![proposalId].status = ResolvedStatus(proposals[proposalId])]
         /\ UNCHANGED <<now, balanceOf, nextProposalId, minVotingPeriod, minVotesForApproval,
                        approvalMajorityPercentage, minProposerTokenHoldings, owner,
                        blacklistRegistry, registryVars, returnedIds>>
    ELSE Revert

\* executeApprovedProposal: the require on the status.
ExecutableStatus(p) == p.status = "Approved"

\* executeApprovedProposal: whether the registry call made for p goes through.
RegistryAccepts(p) ==
    IF p.proposalType = "AddURL"
    THEN CanAddURL(ProposalVotingAddress, p.urlValue, p.proposer)
    ELSE IF p.proposalType = "AddAddress"
    THEN CanAddAddress(ProposalVotingAddress, p.addressValue, p.proposer)
    ELSE IF p.proposalType = "RemoveURL"
    THEN CanRemoveURL(ProposalVotingAddress, p.urlValue, p.proposer)
    ELSE CanRemoveAddress(ProposalVotingAddress, p.addressValue, p.proposer)

\* executeApprovedProposal: the URL mapping after the registry call made for p.
RegistryURLsAfter(p) ==
    IF p.proposalType = "AddURL" THEN AddURLEffect(p.urlValue, p.proposer)
    ELSE IF p.proposalType = "RemoveURL" THEN RemoveURLEffect(p.urlValue)
    ELSE blacklistedURLs

\* executeApprovedProposal: the address mapping after the registry call made for p.
RegistryAddressesAfter(p) ==
    IF p.proposalType = "AddAddress" THEN AddAddressEffect(p.addressValue, p.proposer)
    ELSE IF p.proposalType = "RemoveAddress" THEN RemoveAddressEffect(p.addressValue)
    ELSE blacklistedAddresses

\* The call goes to the contract that blacklistRegistry points at. The code
\* at another address than the registry's is not part of the repository: the
\* call may revert there (as it does where no code is deployed) or return.
ExecuteApprovedProposal(sender, proposalId) ==
    IF /\ OnlyOwner(sender)
       /\ ProposalExists(proposalId)
       /\ ExecutableStatus(proposals[proposalId])
    THEN IF blacklistRegistry = BlacklistRegistryAddress
         THEN IF RegistryAccepts(proposals[proposalId])
              THEN /\ blacklistedURLs' = RegistryURLsAfter(proposals[proposalId])
                   /\ blacklistedAddresses' = RegistryAddressesAfter(proposals[proposalId])
                   /\ proposals' = [proposals EXCEPT ![proposalId].status = "Executed"]
                   /\ UNCHANGED <<now, balanceOf, nextProposalId, minVotingPeriod,
                                  minVotesForApproval, approvalMajorityPercentage,
                                  minProposerTokenHoldings, owner, blacklistRegistry,
                                  proposalVotingContract, registryOwner, returnedIds>>
              ELSE Revert
         ELSE \/ Revert
              \/ /\ proposals' = [proposals EXCEPT ![proposalId].status = "Executed"]
                 /\ UNCHANGED <<now, balanceOf, nextProposalId, minVotingPeriod,
                                minVotesForApproval, approvalMajorityPercentage,
                                minProposerTokenHoldings, owner, blacklistRegistry,
                                registryVars, returnedIds>>
    ELSE Revert

getTotalProposalCount == nextProposalId - 1

hasVotedOnProposal(proposalId, voter) == voter \in proposals[proposalId].hasVoted

\* Mutant: a proposal that needs more yes-votes than the minimum.
willProposalPassAboveMinimum(proposalId) ==
    IF \/ proposals[proposalId].yesVotes <= minVotesForApproval
       \/ proposals[proposalId].totalVoters = 0
    THEN FALSE
    ELSE (proposals[proposalId].yesVotes * 100) \div proposals[proposalId].totalVoters
             >= approvalMajorityPercentage

\* willProposalPass: what the view returns for an existing proposal.
willProposalPass(proposalId) ==
    IF \/ proposals[proposalId].yesVotes < minVotesForApproval
       \/ proposals[proposalId].totalVoters = 0
    THEN FALSE
    ELSE (proposals[proposalId].yesVotes * 100) \div proposals[proposalId].totalVoters
             >= approvalMajorityPercentage

\* A call of willProposalPass: a view, nothing on chain changes; the call
\* reverts, returning nothing, where the proposal does not exist.
WillProposalPass(proposalId) ==
    /\ batchResult' = IF ProposalExists(proposalId)
                      THEN [call |-> "willProposalPass", input |-> <<proposalId>>,
                            output |-> <<willProposalPass(proposalId)>>]
                      ELSE batchResult
    /\ UNCHANGED <<chainVars, returnedIds, indexerVars, faucetVars>>

\* getActiveProposals: the two loops over 1..nextProposalId - 1; the first
\* counts the array's length, the second fills it, in ascending order.
RECURSIVE ActiveCount(_)
ActiveCount(i) ==
    IF i >= nextProposalId THEN 0
    ELSE (IF proposals[i].status = "Active" /\ now < proposals[i].votingPeriodEnd
          THEN 1 ELSE 0) + ActiveCount(i + 1)

RECURSIVE ActiveFill(_, _, _)
ActiveFill(i, index, activeProposals) ==
    IF i >= nextProposalId THEN activeProposals
    ELSE IF proposals[i].status = "Active" /\ now < proposals[i].votingPeriodEnd
    THEN ActiveFill(i + 1, index + 1, [activeProposals EXCEPT ![index + 1] = i])
    ELSE ActiveFill(i + 1, index, activeProposals)

getActiveProposals == ActiveFill(1, 0, [k \in 1..ActiveCount(1) |-> 0])

\* Mutant: a list of the proposals to resolve that ignores the status.
ReadyListedAnyStatus(i) == now >= proposals[i].votingPeriodEnd

\* getProposalsReadyToResolve: the condition of its two loops.
ReadyListed(i) ==
    proposals[i].status = "Active" /\ now >= proposals[i].votingPeriodEnd

RECURSIVE ReadyCount(_)
ReadyCount(i) ==
    IF i >= nextProposalId THEN 0
    ELSE (IF ReadyListed(i) THEN 1 ELSE 0) + ReadyCount(i + 1)

RECURSIVE ReadyFill(_, _, _)
ReadyFill(i, index, readyProposals) ==
    IF i >= nextProposalId THEN readyProposals
    ELSE IF ReadyListed(i)
    THEN ReadyFill(i + 1, index + 1, [readyProposals EXCEPT ![index + 1] = i])
    ELSE ReadyFill(i + 1, index, readyProposals)

getProposalsReadyToResolve == ReadyFill(1, 0, [k \in 1..ReadyCount(1) |-> 0])

\* A call of getActiveProposals and of getProposalsReadyToResolve: views.
GetActiveProposals ==
    /\ batchResult' = [call |-> "getActiveProposals", input |-> <<>>,
                       output |-> getActiveProposals]
    /\ UNCHANGED <<chainVars, returnedIds, indexerVars, faucetVars>>

GetProposalsReadyToResolve ==
    /\ batchResult' = [call |-> "getProposalsReadyToResolve", input |-> <<>>,
                       output |-> getProposalsReadyToResolve]
    /\ UNCHANGED <<chainVars, returnedIds, indexerVars, faucetVars>>

\* updateVotingParameters: the two requires.
VotingParametersOk(newMinVotingPeriod, newApprovalMajorityPercentage) ==
    /\ newMinVotingPeriod > 0
    /\ newApprovalMajorityPercentage > 0 /\ newApprovalMajorityPercentage <= 100

UpdateBlacklistRegistry(sender, newBlacklistRegistryAddress) ==
    IF /\ OnlyOwner(sender)
       /\ newBlacklistRegistryAddress # ZeroAddress
       /\ newBlacklistRegistryAddress # blacklistRegistry
    THEN /\ blacklistRegistry' = newBlacklistRegistryAddress
         /\ UNCHANGED <<now, balanceOf, proposals, nextProposalId, minVotingPeriod,
                        minVotesForApproval, approvalMajorityPercentage,
                        minProposerTokenHoldings, owner, registryVars, returnedIds>>
    ELSE Revert

UpdateVotingParameters(sender, newMinVotingPeriod, newMinVotesForApproval, newApprovalMajorityPercentage) ==
    IF OnlyOwner(sender) /\ VotingParametersOk(newMinVotingPeriod, newApprovalMajorityPercentage)
    THEN /\ minVotingPeriod' = newMinVotingPeriod
         /\ minVotesForApproval' = newMinVotesForApproval
         /\ approvalMajorityPercentage' = newApprovalMajorityPercentage
         /\ UNCHANGED <<now, balanceOf, proposals, nextProposalId, minProposerTokenHoldings,
                        owner, blacklistRegistry, registryVars, returnedIds>>
    ELSE Revert

UpdateMinProposerTokenHoldings(sender, newMinProposerTokenHoldings) ==
    IF OnlyOwner(sender)
    THEN /\ minProposerTokenHoldings' = newMinProposerTokenHoldings
         /\ UNCHANGED <<now, balanceOf, proposals, nextProposalId, minVotingPeriod,
                        minVotesForApproval, approvalMajorityPercentage, owner,
                        blacklistRegistry, registryVars, returnedIds>>
    ELSE Revert

TransferOwnership(sender, newOwner) ==
    IF OnlyOwner(sender) /\ newOwner # ZeroAddress /\ newOwner # owner
    THEN /\ owner' = newOwner
         /\ UNCHANGED <<now, balanceOf, proposals, nextProposalId, minVotingPeriod,
                        minVotesForApproval, approvalMajorityPercentage,
                        minProposerTokenHoldings, blacklistRegistry, registryVars,
                        returnedIds>>
    ELSE Revert

\* ------------------------------------------------------------- the events
\* The enums as the events carry them.
proposalTypeMap == <<"AddURL", "AddAddress", "RemoveURL", "RemoveAddress">>
statusMap == <<"Active", "Approved", "Rejected", "Executed">>

\* The number that encodes the element of an enum listed in map.
EnumNumber(map, element) == (CHOOSE k \in 1..Len(map) : map[k] = element) - 1

\* emit ProposalCreated(...) of createProposal, for the stored proposal p.
ProposalCreatedEvent(p) ==
    [name |-> "ProposalCreated", proposalId |-> p.id,
     type |-> EnumNumber(proposalTypeMap, p.proposalType), url |-> p.urlValue,
     address |-> p.addressValue, description |-> p.description, proposer |-> p.proposer,
     creationTimestamp |-> p.creationTimestamp, votingPeriodEnd |-> p.votingPeriodEnd]

\* Mutant: the event emitted before the tallies are incremented.
VoteCastEventStale(p, voter, support, blockTimestamp) ==
    [name |-> "VoteCast", proposalId |-> p.id, voter |-> voter, support |-> support,
     yesVotes |-> p.yesVotes - (IF support THEN 1 ELSE 0),
     noVotes |-> p.noVotes - (IF support THEN 0 ELSE 1), blockTimestamp |-> blockTimestamp]

\* emit VoteCast(...) of vote, for the proposal p as stored after the vote; the
\* block of the event has the timestamp blockTimestamp.
VoteCastEvent(p, voter, support, blockTimestamp) ==
    [name |-> "VoteCast", proposalId |-> p.id, voter |-> voter, support |-> support,
     yesVotes |-> p.yesVotes, noVotes |-> p.noVotes, blockTimestamp |-> blockTimestamp]

\* emit ProposalStatusUpdated(...) of endProposalAndExecute and
\* executeApprovedProposal.
ProposalStatusUpdatedEvent(proposalId, oldStatus, newStatus) ==
    [name |-> "ProposalStatusUpdated", proposalId |-> proposalId,
     oldStatus |-> EnumNumber(statusMap, oldStatus),
     newStatus |-> EnumNumber(statusMap, newStatus)]

\* emit ProposalExecuted(...) of executeApprovedProposal.
ProposalExecutedEvent(p, executor) ==
    [name |-> "ProposalExecuted", proposalId |-> p.id,
     type |-> EnumNumber(proposalTypeMap, p.proposalType), url |-> p.urlValue,
     address |-> p.addressValue, executor |-> executor]

\* emit EntryAdded(...) / EntryRemoved(...) of the registry call made for p.
RegistryEvent(p, timestamp) ==
    [name |-> IF IsAddType(p.proposalType) THEN "EntryAdded" ELSE "EntryRemoved",
     type |-> IF IsURLType(p.proposalType) THEN 0 ELSE 1,
     value |-> IF IsURLType(p.proposalType) THEN p.urlValue ELSE "",
     address |-> IF IsURLType(p.proposalType) THEN ZeroAddress ELSE p.addressValue,
     timestamp |-> timestamp, proposer |-> p.proposer]

\* ------------------------------------------------------------ the indexer
\* toDate: seconds to a Date, the current date where the timestamp is unusable.
toDate(timestampInSeconds, wallClock) ==
    IF timestampInSeconds = NoTimestamp
    THEN [ms |-> wallClock, fallback |-> TRUE]
    ELSE [ms |-> timestampInSeconds * 1000, fallback |-> FALSE]

\* Whether the document has the values of the filter.
Matches(document, filter) ==
    \A f \in DOMAIN filter : f \in DOMAIN document /\ document[f] = filter[f]

\* The index of the first document that matches the filter, 0 where none does.
FindOne(collection, filter) ==
    IF \E k \in 1..Len(collection) : Matches(collection[k], filter)
    THEN CHOOSE k \in 1..Len(collection) :
             /\ Matches(collection[k], filter)
             /\ \A j \in 1..(k - 1) : ~Matches(collection[j], filter)
    ELSE 0

\* The document with the fields of the update set.
SetFields(document, update) ==
    [f \in DOMAIN document \cup DOMAIN update |->
        IF f \in DOMAIN update THEN update[f] ELSE document[f]]

\* Mutant: an insert where an upsert was asked for.
InsertAlways(collection, filter, update, upsert) ==
    IF upsert THEN Append(collection, SetFields(filter, update))
    ELSE IF FindOne(collection, filter) > 0
    THEN [collection EXCEPT ![FindOne(collection, filter)] = SetFields(@, update)]
    ELSE collection

\* Model.findOneAndUpdate(filter, update, { upsert }): the first match gets the
\* update's fields; without a match, the filter's and the update's fields are
\* inserted as a document if upsert is set.
FindOneAndUpdate(collection, filter, update, upsert) ==
    IF FindOne(collection, filter) > 0
    THEN [collection EXCEPT ![FindOne(collection, filter)] = SetFields(@, update)]
    ELSE IF upsert THEN Append(collection, SetFields(filter, update))
    ELSE collection

\* const entryType = Number(_type) === 0 ? 'URL' : 'Address'
EntryTypeOf(e) == IF e.type = 0 THEN "URL" ELSE "Address"

\* const value = entryType === 'URL' ? _value : _address
EntryValueOf(e) == IF EntryTypeOf(e) = "URL" THEN e.value ELSE e.address

\* The write of the EntryAdded handler.
EntryAddedWrite(m, e, wallClock) ==
    [m EXCEPT !.entries =
        FindOneAndUpdate(@, [value |-> EntryValueOf(e)],
                         [type |-> EntryTypeOf(e), value |-> EntryValueOf(e),
                          proposer |-> e.proposer,
                          timestamp |-> toDate(e.timestamp, wallClock), isActive |-> TRUE],
                         TRUE)]

\* The write of the EntryRemoved handler.
EntryRemovedWrite(m, e, wallClock) ==
    [m EXCEPT !.entries =
        FindOneAndUpdate(@, [value |-> EntryValueOf(e)],
                         [isActive |-> FALSE, timestamp |-> toDate(e.timestamp, wallClock)],
                         FALSE)]

\* The write of the ProposalCreated handler.
ProposalCreatedWrite(m, e, wallClock) ==
    [m EXCEPT !.proposals =
        FindOneAndUpdate(@, [proposalId |-> e.proposalId],
                         [proposalId |-> e.proposalId,
                          proposalType |-> proposalTypeMap[e.type + 1],
                          urlValue |-> e.url, addressValue |-> e.address,
                          description |-> e.description,
                          creationTimestamp |-> toDate(e.creationTimestamp, wallClock),
                          votingPeriodEnd |-> toDate(e.votingPeriodEnd, wallClock),
                          proposer |-> e.proposer, status |-> "Active",
                          yesVotes |-> 0, noVotes |-> 0, totalVoters |-> 0],
                         TRUE)]

\* The first write of the VoteCast handler: the vote.
VoteCastVoteWrite(m, e, wallClock) ==
    [m EXCEPT !.votes =
        FindOneAndUpdate(@, [proposalId |-> e.proposalId, voter |-> e.voter],
                         [proposalId |-> e.proposalId, voter |-> e.voter,
                          support |-> e.support,
                          timestamp |-> toDate(e.blockTimestamp, wallClock)],
                         TRUE)]

\* The second write of the VoteCast handler: the tallies of the proposal.
VoteCastTalliesWrite(m, e) ==
    [m EXCEPT !.proposals =
        FindOneAndUpdate(@, [proposalId |-> e.proposalId],
                         [yesVotes |-> e.yesVotes, noVotes |-> e.noVotes,
                          totalVoters |-> e.yesVotes + e.noVotes],
                         FALSE)]

\* The write of the ProposalStatusUpdated handler.
ProposalStatusUpdatedWrite(m, e) ==
    [m EXCEPT !.proposals =
        FindOneAndUpdate(@, [proposalId |-> e.proposalId],
                         [status |-> statusMap[e.newStatus + 1]], FALSE)]

\* The number of awaits in the handler of e: the VoteCast handler awaits
\* getBlock and two writes, the ProposalExecuted handler only logs.
HandlerLength(e) ==
    IF e.name = "VoteCast" THEN 3
    ELSE IF e.name = "ProposalExecuted" THEN 0
    ELSE 1

\* The mirror after the await number step of the handler of e has returned.
HandlerWrite(m, e, step, wallClock) ==
    IF e.name = "EntryAdded" THEN EntryAddedWrite(m, e, wallClock)
    ELSE IF e.name = "EntryRemoved" THEN EntryRemovedWrite(m, e, wallClock)
    ELSE IF e.name = "ProposalCreated" THEN ProposalCreatedWrite(m, e, wallClock)
    ELSE IF e.name = "ProposalStatusUpdated" THEN ProposalStatusUpdatedWrite(m, e)
    ELSE IF e.name = "VoteCast" /\ step = 2 THEN VoteCastVoteWrite(m, e, wallClock)
    ELSE IF e.name = "VoteCast" /\ step = 3 THEN VoteCastTalliesWrite(m, e)
    ELSE m

\* The handler of e run from its await number step to its end.
RECURSIVE HandlerFrom(_, _, _, _)
HandlerFrom(m, e, step, wallClock) ==
    IF step > HandlerLength(e) THEN m
    ELSE HandlerFrom(HandlerWrite(m, e, step, wallClock), e, step + 1, wallClock)

\* The handler of e run as a whole.
ApplyEvent(m, e, wallClock) == HandlerFrom(m, e, 1, wallClock)

\* A handler run as a whole on the payload e, nothing else happening meanwhile.
RunHandler(e, wallClock) ==
    /\ mirror' = ApplyEvent(mirror, e, wallClock)
    /\ UNCHANGED <<chainVars, returnedIds, batchResult, faucetVars, chainLog, cursor, running,
                   inflight, handled>>

\* The mirror that the handlers of the events of log leave when each runs to
\* its end before the next one starts (the events of the chain carry numbers as
\* timestamps, so no wall clock is read).
RECURSIVE Replay(_)
Replay(log) ==
    IF log = <<>> THEN EmptyMirror
    ELSE ApplyEvent(Replay(SubSeq(log, 1, Len(log) - 1)), log[Len(log)], 0)

\* What a transaction adds to the events of the chain: its events if it went
\* through, nothing if it reverted.
Emits(events) ==
    /\ chainLog' = IF chainVars' # chainVars THEN chainLog \o events ELSE chainLog
    /\ UNCHANGED <<batchResult, faucetVars, mirror, cursor, running, inflight, handled>>

\* A block without events.
TickOnChain == Tick /\ Emits(<<>>)

\* vote with its event.
VoteOnChain(sender, proposalId, support) ==
    /\ Vote(sender, proposalId, support)
    /\ Emits(<<VoteCastEvent(proposals'[proposalId], sender, support, now)>>)

\* endProposalAndExecute with its event.
EndOnChain(sender, proposalId) ==
    /\ EndProposalAndExecute(sender, proposalId)
    /\ Emits(<<ProposalStatusUpdatedEvent(proposalId, proposals[proposalId].status,
                                          proposals'[proposalId].status)>>)

\* executeApprovedProposal with its events: the registry's, where the call
\* went to the registry, then the engine's two.
ExecuteOnChain(sender, proposalId) ==
    /\ ExecuteApprovedProposal(sender, proposalId)
    /\ Emits((IF blacklistRegistry = BlacklistRegistryAddress
              THEN <<RegistryEvent(proposals[proposalId], now)>> ELSE <<>>)
             \o <<ProposalExecutedEvent(proposals'[proposalId], sender),
                  ProposalStatusUpdatedEvent(proposalId, proposals[proposalId].status,
                                             proposals'[proposalId].status)>>)

\* createProposal with its event.
CreateOnChain(sender, type, url, address, description, duration) ==
    /\ CreateProposal(sender, type, url, address, description, duration)
    /\ Emits(<<ProposalCreatedEvent(proposals'[nextProposalId])>>)

\* A direct call of addURL, addAddress, removeURL or removeAddress, named by
\* the type of the proposal that would make it, with its event.
RegistryCallOnChain(sender, type, key, proposer) ==
    /\ IF type = "AddURL" THEN AddURL(sender, key, proposer)
       ELSE IF type = "AddAddress" THEN AddAddress(sender, key, proposer)
       ELSE IF type = "RemoveURL" THEN RemoveURL(sender, key, proposer)
       ELSE RemoveAddress(sender, key, proposer)
    /\ Emits(<<RegistryEvent([proposalType |-> type,
                              urlValue |-> IF IsURLType(type) THEN key ELSE "",
                              addressValue |-> IF IsURLType(type) THEN ZeroAddress ELSE key,
                              proposer |-> proposer], now)>>)

\* updateProposalVotingContract; its event is not one the indexer listens to.
LinkOnChain(sender, newProposalVotingContract) ==
    /\ UpdateProposalVotingContract(sender, newProposalVotingContract)
    /\ UNCHANGED offChainVars

\* The subscription hands the next event to its handler, which runs to its
\* first await; a handler without await is finished at once.
Deliver ==
    /\ running
    /\ cursor < Len(chainLog)
    /\ cursor' = cursor + 1
    /\ handled' = handled \cup {cursor + 1}
    /\ inflight' = IF HandlerLength(chainLog[cursor + 1]) = 0 THEN inflight
                   ELSE inflight \cup {[position |-> cursor + 1, step |-> 1]}
    /\ UNCHANGED <<chainVars, returnedIds, batchResult, faucetVars, mirror, chainLog, running>>

\* The await that the handler h waits on returns: its write has taken effect,
\* and the handler runs to its next await or to its end.
Resume(h, wallClock) ==
    /\ running
    /\ h \in inflight
    /\ mirror' = HandlerWrite(mirror, chainLog[h.position], h.step, wallClock)
    /\ inflight' = (inflight \ {h}) \cup
                       (IF h.step < HandlerLength(chainLog[h.position])
                        THEN {[h EXCEPT !.step = @ + 1]} ELSE {})
    /\ UNCHANGED <<chainVars, returnedIds, batchResult, faucetVars, chainLog, cursor, running, handled>>

\* The next event is delivered and its handler runs to its end before
\* anything else happens.
DeliverWhole(wallClock) ==
    /\ running
    /\ cursor < Len(chainLog)
    /\ cursor' = cursor + 1
    /\ handled' = handled \cup {cursor + 1}
    /\ mirror' = ApplyEvent(mirror, chainLog[cursor + 1], wallClock)
    /\ UNCHANGED <<chainVars, returnedIds, batchResult, faucetVars, chainLog, running, inflight>>

\* The handler of e run from its await number step until its await number
\* failAt rejects: the catch block logs the error and the handler ends.
RECURSIVE HandlerUntil(_, _, _, _, _)
HandlerUntil(m, e, step, failAt, wallClock) ==
    IF step >= failAt THEN m
    ELSE HandlerUntil(HandlerWrite(m, e, step, wallClock), e, step + 1, failAt, wallClock)

\* The next event is delivered and its handler fails at its await number
\* failAt; the event is not delivered again.
DeliverFailing(failAt, wallClock) ==
    /\ running
    /\ cursor < Len(chainLog)
    /\ failAt \in 1..HandlerLength(chainLog[cursor + 1])
    /\ cursor' = cursor + 1
    /\ handled' = handled \cup {cursor + 1}
    /\ mirror' = HandlerUntil(mirror, chainLog[cursor + 1], 1, failAt, wallClock)
    /\ UNCHANGED <<chainVars, returnedIds, batchResult, faucetVars, chainLog, running, inflight>>

\* An event that was delivered before is delivered once more, and its
\* handler runs to its end.
Redeliver(position, wallClock) ==
    /\ running
    /\ position \in 1..cursor
    /\ mirror' = ApplyEvent(mirror, chainLog[position], wallClock)
    /\ UNCHANGED <<chainVars, returnedIds, batchResult, faucetVars, chainLog, cursor, running,
                   inflight, handled>>

\* Some handler goes on.
ResumeSome == \E h \in inflight, w \in WallClockInputs : Resume(h, w)

\* The process stops: the handlers that were waiting are gone.
Stop ==
    /\ running
    /\ running' = FALSE
    /\ inflight' = {}
    /\ UNCHANGED <<chainVars, returnedIds, batchResult, faucetVars, mirror, chainLog, cursor, handled>>

\* startBlockchainIndexer: the subscriptions start at the head of the chain.
Start ==
    /\ ~running
    /\ running' = TRUE
    /\ cursor' = Len(chainLog)
    /\ UNCHANGED <<chainVars, returnedIds, batchResult, faucetVars, mirror, chainLog, inflight, handled>>

\* ------------------------------------------------------------------- Next
\* The lifecycle of a proposal among the two users: every call of
\* createProposal, vote, endProposalAndExecute, executeApprovedProposal and
\* updateVotingParameters, by either user, with valid and invalid arguments.
Next ==
    \/ Tick /\ UNCHANGED offChainVars
    \/ \E s \in Users, t \in ProposalType, u \in UrlInputs, a \in AddressInputs,
          d \in DescriptionInputs, n \in DurationInputs :
           nextProposalId <= MaxProposals /\ CreateProposal(s, t, u, a, d, n) /\ UNCHANGED offChainVars
    \/ \E s \in Users, i \in 0..MaxProposals, b \in BOOLEAN : Vote(s, i, b) /\ UNCHANGED offChainVars
    \/ \E s \in Users, i \in 0..MaxProposals : EndProposalAndExecute(s, i) /\ UNCHANGED offChainVars
    \/ \E s \in Users, i \in 0..MaxProposals : ExecuteApprovedProposal(s, i) /\ UNCHANGED offChainVars
    \/ \E s \in Users, t \in ParameterInputs : UpdateVotingParameters(s, t[1], t[2], t[3]) /\ UNCHANGED offChainVars

Spec == Init /\ [][Next]_vars

\* The lifecycle under every administrative call as well: token transfers, the
\* token gate and a change of owner.
NextAdmin ==
    \/ Tick /\ UNCHANGED offChainVars
    \/ \E s \in Users, to \in TokenReceivers \cup {ZeroAddress}, n \in 1..TokenSupply :
           BatchTransfer(s, to, n) /\ UNCHANGED offChainVars
    \/ \E s \in Users, t \in ProposalType, u \in UrlInputs, a \in AddressInputs,
          d \in DescriptionInputs, n \in DurationInputs :
           nextProposalId <= MaxProposals /\ CreateProposal(s, t, u, a, d, n) /\ UNCHANGED offChainVars
    \/ \E s \in Users, i \in 0..MaxProposals, b \in BOOLEAN : Vote(s, i, b) /\ UNCHANGED offChainVars
    \/ \E s \in Users, i \in 0..MaxProposals : EndProposalAndExecute(s, i) /\ UNCHANGED offChainVars
    \/ \E s \in Users, i \in 0..MaxProposals : ExecuteApprovedProposal(s, i) /\ UNCHANGED offChainVars
    \/ \E s \in Users, t \in ParameterInputs : UpdateVotingParameters(s, t[1], t[2], t[3]) /\ UNCHANGED offChainVars
    \/ \E s \in Users, h \in 0..TokenSupply : UpdateMinProposerTokenHoldings(s, h) /\ UNCHANGED offChainVars
    \/ \E s \in Users, o \in OwnerInputs : TransferOwnership(s, o) /\ UNCHANGED offChainVars

SpecAdmin == Init /\ [][NextAdmin]_vars

\* The creation of proposals while tokens move, the token gate changes and the
\* engine is handed to another owner.
NextGate ==
    \/ Tick /\ UNCHANGED offChainVars
    \/ \E s \in Users, to \in TokenReceivers \cup {ZeroAddress}, n \in 1..TokenSupply :
           BatchTransfer(s, to, n) /\ UNCHANGED offChainVars
    \/ \E s \in Users, t \in ProposalType, u \in UrlInputs, a \in AddressInputs,
          d \in DescriptionInputs, n \in DurationInputs :
           nextProposalId <= MaxProposals /\ CreateProposal(s, t, u, a, d, n)
               /\ UNCHANGED offChainVars
    \/ \E s \in Users, h \in 0..TokenSupply :
           UpdateMinProposerTokenHoldings(s, h) /\ UNCHANGED offChainVars
    \/ \E s \in Users, o \in OwnerInputs : TransferOwnership(s, o) /\ UNCHANGED offChainVars

SpecGate == Init /\ [][NextGate]_vars

\* The registry on its own, from its deployment with the deployer as the
\* temporary authorized caller: direct calls of its functions by either user.
InitRegistry ==
    /\ now = 0
    /\ balanceOf = [a \in Users |-> IF a = Deployer THEN TokenSupply ELSE 0]
    /\ proposals = [i \in ProposalIds |-> EmptyProposal]
    /\ nextProposalId = 1
    /\ minVotingPeriod = 1
    /\ minVotesForApproval = 1
    /\ approvalMajorityPercentage = 51
    /\ minProposerTokenHoldings = 1
    /\ owner = Deployer
    /\ blacklistRegistry = BlacklistRegistryAddress
    /\ blacklistedURLs = [u \in UrlInputs |-> EmptyEntry]
    /\ blacklistedAddresses = [a \in AddressInputs |-> EmptyEntry]
    /\ proposalVotingContract = Deployer
    /\ registryOwner = Deployer
    /\ returnedIds = <<>>
    /\ batchResult = NoBatch
    /\ FaucetIdle
    /\ IndexerIdle

NextRegistry ==
    \/ Tick /\ UNCHANGED offChainVars
    \/ \E s \in Users, u \in UrlInputs, p \in ProposerInputs :
           AddURL(s, u, p) /\ UNCHANGED offChainVars
    \/ \E s \in Users, a \in AddressInputs, p \in ProposerInputs :
           AddAddress(s, a, p) /\ UNCHANGED offChainVars
    \/ \E s \in Users, u \in UrlInputs, p \in ProposerInputs :
           RemoveURL(s, u, p) /\ UNCHANGED offChainVars
    \/ \E s \in Users, a \in AddressInputs, p \in ProposerInputs :
           RemoveAddress(s, a, p) /\ UNCHANGED offChainVars
    \/ \E s \in Users, c \in AuthorizedCallerInputs :
           UpdateProposalVotingContract(s, c) /\ UNCHANGED offChainVars
    \/ \E s \in Users, o \in OwnerInputs :
           RegistryTransferOwnership(s, o) /\ UNCHANGED offChainVars
    \/ \E urls \in BatchInputs(UrlInputs) : BatchCheckURLs(urls)
    \/ \E addresses \in BatchInputs(AddressInputs) : BatchCheckAddresses(addresses)

SpecRegistry == InitRegistry /\ [][NextRegistry]_vars

\* The engine and the registry together, deployed and linked: the lifecycle
\* of a proposal, the re-pointing of either contract at another address, and
\* direct calls of the registry by either user.
NextSystem ==
    \/ Tick /\ UNCHANGED offChainVars
    \/ \E s \in Users, t \in ProposalType, u \in UrlInputs, a \in AddressInputs,
          d \in DescriptionInputs, n \in DurationInputs :
           nextProposalId <= MaxProposals /\ CreateProposal(s, t, u, a, d, n)
               /\ UNCHANGED offChainVars
    \/ \E s \in Users, i \in 0..MaxProposals, b \in BOOLEAN :
           Vote(s, i, b) /\ UNCHANGED offChainVars
    \/ \E s \in Users, i \in 0..MaxProposals :
           EndProposalAndExecute(s, i) /\ UNCHANGED offChainVars
    \/ \E s \in Users, i \in 0..MaxProposals :
           ExecuteApprovedProposal(s, i) /\ UNCHANGED offChainVars
    \/ \E s \in Users, r \in RegistryInputs :
           UpdateBlacklistRegistry(s, r) /\ UNCHANGED offChainVars
    \/ \E s \in Users, c \in AuthorizedCallerInputs :
           UpdateProposalVotingContract(s, c) /\ UNCHANGED offChainVars
    \/ \E s \in Users, u \in UrlInputs, p \in ProposerInputs :
           AddURL(s, u, p) /\ UNCHANGED offChainVars
    \/ \E s \in Users, a \in AddressInputs, p \in ProposerInputs :
           AddAddress(s, a, p) /\ UNCHANGED offChainVars
    \/ \E s \in Users, u \in UrlInputs, p \in ProposerInputs :
           RemoveURL(s, u, p) /\ UNCHANGED offChainVars
    \/ \E s \in Users, a \in AddressInputs, p \in ProposerInputs :
           RemoveAddress(s, a, p) /\ UNCHANGED offChainVars

SpecSystem == Init /\ [][NextSystem]_vars

\* A series of proposals under the initial parameters: every call of
\* createProposal, endProposalAndExecute and executeApprovedProposal by either
\* user, and the yes-vote of the deployer, the one holder of tokens.
NextSeries ==
    \/ Tick /\ UNCHANGED offChainVars
    \/ \E s \in Users, t \in ProposalType, u \in UrlInputs, a \in AddressInputs,
          d \in DescriptionInputs, n \in DurationInputs :
           nextProposalId <= MaxSeries /\ CreateProposal(s, t, u, a, d, n) /\ UNCHANGED offChainVars
    \/ \E i \in 0..MaxSeries : Vote(Deployer, i, TRUE) /\ UNCHANGED offChainVars
    \/ \E s \in Users, i \in 0..MaxSeries : EndProposalAndExecute(s, i) /\ UNCHANGED offChainVars
    \/ \E s \in Users, i \in 0..MaxSeries : ExecuteApprovedProposal(s, i) /\ UNCHANGED offChainVars

SpecSeries == Init /\ [][NextSeries]_vars

\* A series of proposals that differ in their voting periods only, with the
\* calls of the two list views.
NextLists ==
    \/ Tick /\ UNCHANGED offChainVars
    \/ \E n \in DurationInputs :
           /\ nextProposalId <= MaxSeries
           /\ CreateProposal(Deployer, "AddURL", "evil.io", ZeroAddress, "phishing", n)
           /\ UNCHANGED offChainVars
    \/ \E i \in 0..MaxSeries : Vote(Deployer, i, TRUE) /\ UNCHANGED offChainVars
    \/ \E s \in Users, i \in 0..MaxSeries : EndProposalAndExecute(s, i) /\ UNCHANGED offChainVars
    \/ GetActiveProposals
    \/ GetProposalsReadyToResolve

SpecLists == Init /\ [][NextLists]_vars

\* A series of proposals on which both users vote, the one who holds the
\* tokens and the one who holds none.
NextVotes ==
    \/ Tick /\ UNCHANGED offChainVars
    \/ \E n \in DurationInputs :
           /\ nextProposalId <= MaxSeries
           /\ CreateProposal(Deployer, "AddURL", "evil.io", ZeroAddress, "phishing", n)
           /\ UNCHANGED offChainVars
    \/ \E s \in Users, i \in 0..MaxSeries, b \in BOOLEAN : Vote(s, i, b) /\ UNCHANGED offChainVars
    \/ \E s \in Users, i \in 0..MaxSeries : EndProposalAndExecute(s, i) /\ UNCHANGED offChainVars

SpecVotes == Init /\ [][NextVotes]_vars

\* The vote and its resolution with three voters, where the integer division
\* of the approval rule rounds: one AddURL proposal, created by the deployer
\* in the first block, is voted on and resolved while the owner changes the
\* thresholds.
ChainResolve ==
    /\ now = 0
    /\ balanceOf = [a \in Users |-> IF a = Deployer THEN TokenSupply ELSE 0]
    /\ nextProposalId = 2
    /\ minVotingPeriod = 1
    /\ minVotesForApproval = 1
    /\ approvalMajorityPercentage = 51
    /\ minProposerTokenHoldings = 1
    /\ owner = Deployer
    /\ proposals = [i \in ProposalIds |->
                      IF i = 1
                      THEN NewProposal(1, Deployer, "AddURL", "evil.io", ZeroAddress, "phishing", 1)
                      ELSE EmptyProposal]
    /\ blacklistedURLs = [u \in UrlInputs |-> EmptyEntry]
    /\ blacklistedAddresses = [a \in AddressInputs |-> EmptyEntry]
    /\ proposalVotingContract = ProposalVotingAddress
    /\ registryOwner = Deployer
    /\ blacklistRegistry = BlacklistRegistryAddress
    /\ returnedIds = <<1>>
    /\ batchResult = NoBatch
    /\ FaucetIdle

\* The indexer has handled the proposal's ProposalCreated event.
InitResolve ==
    /\ ChainResolve
    /\ chainLog = <<ProposalCreatedEvent(proposals[1])>>
    /\ mirror = Replay(chainLog)
    /\ cursor = 1
    /\ running = TRUE
    /\ inflight = {}
    /\ handled = {1}

NextResolve ==
    \/ Tick /\ UNCHANGED offChainVars
    \/ \E s \in Voters, i \in {0, 1}, b \in BOOLEAN : Vote(s, i, b) /\ UNCHANGED offChainVars
    \/ \E s \in Users, i \in {0, 1} : EndProposalAndExecute(s, i) /\ UNCHANGED offChainVars
    \/ \E s \in Users, t \in ThresholdInputs : UpdateVotingParameters(s, t[1], t[2], t[3]) /\ UNCHANGED offChainVars

SpecResolve == InitResolve /\ [][NextResolve]_vars

\* The same with the calls of willProposalPass.
NextWillPass ==
    \/ Tick /\ UNCHANGED offChainVars
    \/ \E s \in Voters, i \in {0, 1}, b \in BOOLEAN : Vote(s, i, b) /\ UNCHANGED offChainVars
    \/ \E s \in Users, i \in {0, 1} : EndProposalAndExecute(s, i) /\ UNCHANGED offChainVars
    \/ \E s \in Users, t \in ThresholdInputs :
           UpdateVotingParameters(s, t[1], t[2], t[3]) /\ UNCHANGED offChainVars
    \/ \E i \in {0, 1} : WillProposalPass(i)

SpecWillPass == InitResolve /\ [][NextWillPass]_vars

\* The owner's rights in the engine: the proposal of InitResolve is voted on,
\* resolved and executed while either user calls every function reserved to
\* the owner.
NextOwner ==
    \/ Tick /\ UNCHANGED offChainVars
    \/ \E s \in Users, i \in {0, 1}, b \in BOOLEAN : Vote(s, i, b) /\ UNCHANGED offChainVars
    \/ \E s \in Users, i \in {0, 1} : EndProposalAndExecute(s, i) /\ UNCHANGED offChainVars
    \/ \E s \in Users, i \in {0, 1} : ExecuteApprovedProposal(s, i) /\ UNCHANGED offChainVars
    \/ \E s \in Users, t \in ParameterInputs :
           UpdateVotingParameters(s, t[1], t[2], t[3]) /\ UNCHANGED offChainVars
    \/ \E s \in Users, h \in 0..TokenSupply :
           UpdateMinProposerTokenHoldings(s, h) /\ UNCHANGED offChainVars
    \/ \E s \in Users, r \in RegistryInputs :
           UpdateBlacklistRegistry(s, r) /\ UNCHANGED offChainVars
    \/ \E s \in Users, o \in OwnerInputs : TransferOwnership(s, o) /\ UNCHANGED offChainVars

SpecOwner == InitResolve /\ [][NextOwner]_vars

\* The handlers run on payloads, one at a time.
NextMirror ==
    \/ \E e \in EntryPayloads("EntryAdded"), w \in WallClockInputs : RunHandler(e, w)
    \/ \E e \in EntryPayloads("EntryRemoved"), w \in WallClockInputs : RunHandler(e, w)
    \/ \E e \in ProposalCreatedPayloads, w \in WallClockInputs : RunHandler(e, w)
    \/ \E e \in VoteCastPayloads, w \in WallClockInputs : RunHandler(e, w)
    \/ \E e \in ProposalStatusUpdatedPayloads, w \in WallClockInputs : RunHandler(e, w)
    \/ \E e \in ProposalExecutedPayloads, w \in WallClockInputs : RunHandler(e, w)

SpecMirror == Init /\ [][NextMirror]_vars

\* The indexer beside the chain: the proposal of ChainResolve was created in
\* the last block, its event is not delivered yet; the users vote, resolve and
\* execute while the handlers run, each await returning when it returns.
InitIndexer ==
    /\ ChainResolve
    /\ chainLog = <<ProposalCreatedEvent(proposals[1])>>
    /\ mirror = EmptyMirror
    /\ cursor = 0
    /\ running = TRUE
    /\ inflight = {}
    /\ handled = {}

NextIndexer ==
    \/ TickOnChain
    \/ \E s \in Users, b \in BOOLEAN : VoteOnChain(s, 1, b)
    \/ \E s \in Users : EndOnChain(s, 1)
    \/ \E s \in Users : ExecuteOnChain(s, 1)
    \/ Deliver
    \/ ResumeSome

SpecIndexer == InitIndexer /\ [][NextIndexer]_vars

\* The same with the process stopping and starting again. The event loop runs
\* a delivery or a returned await that stays possible, and a stopped process is
\* started again.
NextRestart ==
    \/ TickOnChain
    \/ \E s \in Users, b \in BOOLEAN : VoteOnChain(s, 1, b)
    \/ \E s \in Users : EndOnChain(s, 1)
    \/ \E s \in Users : ExecuteOnChain(s, 1)
    \/ Deliver
    \/ ResumeSome
    \/ Stop
    \/ Start

SpecRestart ==
    /\ InitIndexer
    /\ [][NextRestart]_vars
    /\ WF_vars(Deliver)
    /\ WF_vars(ResumeSome)
    /\ WF_vars(Start)

\* The indexer beside the chain where the events arrive at least once: each in
\* emission order, earlier ones again at any later moment, every handler
\* running to its end before the next delivery.
NextRedeliver ==
    \/ TickOnChain
    \/ \E s \in Users, b \in BOOLEAN : VoteOnChain(s, 1, b)
    \/ \E s \in Users : EndOnChain(s, 1)
    \/ \E s \in Users : ExecuteOnChain(s, 1)
    \/ \E w \in WallClockInputs : DeliverWhole(w)
    \/ \E k \in 1..Len(chainLog), w \in WallClockInputs : Redeliver(k, w)

SpecRedeliver == InitIndexer /\ [][NextRedeliver]_vars

\* The deployment and what follows, with the indexer handling every event
\* once, in emission order, one handler at a time: the registry starts with
\* the deployer as the authorized caller, who adds and removes entries under
\* one text as a URL and as an address and then links the engine; one proposal
\* on the same text goes through its lifecycle.
InitInOrder ==
    /\ now = 0
    /\ balanceOf = [a \in Users |-> IF a = Deployer THEN TokenSupply ELSE 0]
    /\ proposals = [i \in ProposalIds |-> EmptyProposal]
    /\ nextProposalId = 1
    /\ minVotingPeriod = 1
    /\ minVotesForApproval = 1
    /\ approvalMajorityPercentage = 51
    /\ minProposerTokenHoldings = 1
    /\ owner = Deployer
    /\ blacklistRegistry = BlacklistRegistryAddress
    /\ blacklistedURLs = [u \in UrlKeys |-> EmptyEntry]
    /\ blacklistedAddresses = [a \in AddressInputs |-> EmptyEntry]
    /\ proposalVotingContract = Deployer
    /\ registryOwner = Deployer
    /\ returnedIds = <<>>
    /\ batchResult = NoBatch
    /\ FaucetIdle
    /\ IndexerIdle

NextInOrder ==
    \/ TickOnChain
    \/ \E t \in ProposalType :
           /\ nextProposalId <= MaxProposals
           /\ CreateOnChain(Deployer, t, IF IsURLType(t) THEN "carol" ELSE "",
                            IF IsURLType(t) THEN ZeroAddress ELSE "carol", "phishing", 1)
    \/ \E b \in BOOLEAN : VoteOnChain(Deployer, 1, b)
    \/ EndOnChain(Deployer, 1)
    \/ ExecuteOnChain(Deployer, 1)
    \/ \E t \in ProposalType :
           Len(chainLog) < MaxEvents /\ RegistryCallOnChain(Deployer, t, "carol", "bob")
    \/ LinkOnChain(Deployer, ProposalVotingAddress)
    \/ \E w \in WallClockInputs : DeliverWhole(w)

SpecInOrder == InitInOrder /\ [][NextInOrder]_vars

\* The indexer beside the chain where an await of a handler may reject (the
\* database or the provider fails): one handler at a time, each running to its
\* end or to the failing await.
NextFailure ==
    \/ TickOnChain
    \/ \E s \in Users, b \in BOOLEAN : VoteOnChain(s, 1, b)
    \/ \E s \in Users : EndOnChain(s, 1)
    \/ \E s \in Users : ExecuteOnChain(s, 1)
    \/ \E w \in WallClockInputs : DeliverWhole(w)
    \/ \E failAt \in 1..3, w \in WallClockInputs : DeliverFailing(failAt, w)

SpecFailure == InitIndexer /\ [][NextFailure]_vars

\* The events of the chain: proposals to add and to remove one URL, some with
\* an empty description, are created and voted on by both users, and either
\* user resolves and executes them.
NextEvents ==
    \/ TickOnChain
    \/ \E t \in {"AddURL", "RemoveURL"}, d \in DescriptionInputs :
           /\ nextProposalId <= MaxProposals
           /\ CreateOnChain(Deployer, t, "evil.io", ZeroAddress, d, 1)
    \/ \E s \in Users, i \in 0..MaxProposals, b \in BOOLEAN : VoteOnChain(s, i, b)
    \/ \E s \in Users, i \in 0..MaxProposals : EndOnChain(s, i)
    \/ \E s \in Users, i \in 0..MaxProposals : ExecuteOnChain(s, i)

SpecEvents == Init /\ [][NextEvents]_vars

\* ----------------------------------------------------------------- faucet
\* FAUCET_AMOUNT_APGT, in the unit of the model's balances.
FAUCET_AMOUNT_APGT == 1
\* FAUCET_COOLDOWN_MS, in the unit of the model's clock.
FAUCET_COOLDOWN_MS == 1
\* The userAddress fields of the request bodies: no address, and two accounts.
ClaimInputs == {""} \cup Users

\* ethers.isAddress(userAddress)
isAddress(userAddress) == userAddress \in Users

\* The timestamp of FaucetClaim.findOne({userAddress}).sort({timestamp: -1}),
\* for a user that has a claim on record.
LastClaimTimestamp(userAddress) ==
    CHOOSE t \in {c.timestamp : c \in {d \in faucetClaims : d.userAddress = userAddress}} :
        \A c \in faucetClaims : c.userAddress = userAddress => c.timestamp <= t

\* lastClaim && (Date.now() - lastClaim.timestamp.getTime() < FAUCET_COOLDOWN_MS)
InCooldown(userAddress) ==
    /\ \E c \in faucetClaims : c.userAddress = userAddress
    /\ now - LastClaimTimestamp(userAddress) < FAUCET_COOLDOWN_MS

\* What the faucet's steps leave alone.
FaucetFrame ==
    UNCHANGED <<now, engineVars, registryVars, returnedIds, batchResult, indexerVars>>

\* The request arrives and runs up to the await of the mint: the address is
\* validated (400), the last claim of the address is read and compared with
\* the clock (429), and the mint transaction is sent. The rate limiter lets
\* up to five requests of one client through in five minutes, more than
\* arrive here.
ClaimCheck(r, userAddress) ==
    /\ claimRequests[r].at = "new"
    /\ claimRequests' = [claimRequests EXCEPT ![r] =
           [userAddress |-> userAddress,
            at |-> IF ~isAddress(userAddress) THEN "400"
                   ELSE IF InCooldown(userAddress) THEN "429"
                   ELSE "mint"]]
    /\ UNCHANGED <<balanceOf, faucetClaims, minted>>
    /\ FaucetFrame

\* The mint transaction of the request is mined: GovernanceToken.mint credits
\* the address, and the handler goes on to record the claim.
ClaimMint(r) ==
    /\ claimRequests[r].at = "mint"
    /\ balanceOf' = [balanceOf EXCEPT ![claimRequests[r].userAddress] = @ + FAUCET_AMOUNT_APGT]
    /\ minted' = Append(minted, [to |-> claimRequests[r].userAddress, timestamp |-> now])
    /\ claimRequests' = [claimRequests EXCEPT ![r].at = "create"]
    /\ UNCHANGED faucetClaims
    /\ FaucetFrame

\* The mint transaction fails (max supply, gas or nonce): the catch block
\* answers 500 and nothing is recorded.
ClaimMintFails(r) ==
    /\ claimRequests[r].at = "mint"
    /\ claimRequests' = [claimRequests EXCEPT ![r].at = "500"]
    /\ UNCHANGED <<balanceOf, faucetClaims, minted>>
    /\ FaucetFrame

\* FaucetClaim.create with timestamp new Date() and the hash of the mint
\* transaction, then the answer 200.
ClaimCreate(r) ==
    /\ claimRequests[r].at = "create"
    /\ faucetClaims' = faucetClaims \cup
           {[userAddress |-> claimRequests[r].userAddress, timestamp |-> now,
             txHash |-> CHOOSE k \in 1..Len(minted) :
                            /\ minted[k].to = claimRequests[r].userAddress
                            /\ \A c \in faucetClaims : c.txHash # k]}
    /\ claimRequests' = [claimRequests EXCEPT ![r].at = "200"]
    /\ UNCHANGED <<balanceOf, minted>>
    /\ FaucetFrame

\* Requests for either account and for no address arrive at any time, and
\* every await of a handler may be overtaken by the other requests.
NextFaucet ==
    \/ Tick /\ UNCHANGED offChainVars
    \/ \E r \in 1..MaxClaims, a \in ClaimInputs : ClaimCheck(r, a)
    \/ \E r \in 1..MaxClaims : ClaimMint(r)
    \/ \E r \in 1..MaxClaims : ClaimMintFails(r)
    \/ \E r \in 1..MaxClaims : ClaimCreate(r)

SpecFaucet == Init /\ [][NextFaucet]_vars

\* ================================================================= claims
Existing == 1..(nextProposalId - 1)

\* C1: the ids returned by the successful createProposal calls are 1, 2, 3, ...
\* in call order (none skipped, none reused, none consumed by a failing call),
\* and getTotalProposalCount is the number of successful creations.
C1_SequentialIds ==
    /\ \A k \in 1..Len(returnedIds) : returnedIds[k] = k
    /\ getTotalProposalCount = Len(returnedIds)
    /\ \A i \in ProposalIds : (proposals[i].id = i) <=> (i <= Len(returnedIds))

\* Two creations have succeeded.
C1_Witness ==
    /\ Len(returnedIds) = 2
    /\ proposals[1].id = 1 /\ proposals[2].id = 2

IsFloor(q, num, den) == q * den <= num /\ num < (q + 1) * den

\* The decision rule as the specification words it, on the tallies (yes,
\* total) under the thresholds (least, percent).
RuleApproves(yes, total, least, percent) ==
    /\ yes >= least
    /\ total > 0
    /\ \E q \in 0..100 : IsFloor(q, yes * 100, total) /\ q >= percent

RegistryAppliedExactly(p) ==
    /\ IsURLType(p.proposalType) =>
          /\ blacklistedURLs'[p.urlValue].exists = IsAddType(p.proposalType)
          /\ \A u \in UrlInputs \ {p.urlValue} : blacklistedURLs'[u] = blacklistedURLs[u]
          /\ blacklistedAddresses' = blacklistedAddresses
    /\ IsAddressType(p.proposalType) =>
          /\ blacklistedAddresses'[p.addressValue].exists = IsAddType(p.proposalType)
          /\ \A a \in AddressInputs \ {p.addressValue} :
                blacklistedAddresses'[a] = blacklistedAddresses[a]
          /\ blacklistedURLs' = blacklistedURLs

\* Whether the target of p is blacklisted now.
TargetBlacklisted(p) ==
    IF IsURLType(p.proposalType) THEN isURLBlacklisted(p.urlValue)
    ELSE isAddressBlacklisted(p.addressValue)

\* C5: executeApprovedProposal on an existing proposal either succeeds (the
\* caller is the owner, the status is Approved, and the registry takes the
\* operation: the target is not yet blacklisted for an Add, blacklisted for a
\* Remove), applying exactly that operation and setting Executed, or changes
\* nothing (a step that changes nothing is a stuttering step, which [A]_vars
\* allows): a proposal the registry refuses stays Approved.
C5_ExecuteOrUnchanged ==
    [][vars' # vars => \A s \in Users, i \in ProposalIds :
          (i \in Existing /\ ExecuteApprovedProposal(s, i)) =>
              LET p == proposals[i]
              IN /\ s = owner
                 /\ p.status = "Approved"
                 /\ TargetBlacklisted(p) = IsRemoveType(p.proposalType)
                 /\ proposals' = [proposals EXCEPT ![i].status = "Executed"]
                 /\ RegistryAppliedExactly(p)]_vars

\* One Add of a URL was executed while a second Approved Add of the same URL
\* is left, which the registry refuses.
C5_Witness ==
    \E i, j \in Existing :
        /\ proposals[i].proposalType = "AddURL" /\ proposals[i].status = "Executed"
        /\ proposals[j].proposalType = "AddURL" /\ proposals[j].status = "Approved"
        /\ proposals[j].urlValue = proposals[i].urlValue
        /\ isURLBlacklisted(proposals[j].urlValue)

\* C6: one call of endProposalAndExecute, after the voting period, on a
\* proposal that meets the approval criteria executes it: the status is
\* Executed and the target is blacklisted (Add) or no longer blacklisted
\* (Remove).
C6_ResolveExecutes ==
    [][vars' # vars => \A s \in Users, i \in ProposalIds :
          (/\ i \in Existing
           /\ proposals[i].status = "Active"
           /\ now >= proposals[i].votingPeriodEnd
           /\ RuleApproves(proposals[i].yesVotes, proposals[i].totalVoters,
                           minVotesForApproval, approvalMajorityPercentage)
           /\ EndProposalAndExecute(s, i)) =>
              LET p == proposals[i]
              IN /\ proposals'[i].status = "Executed"
                 /\ IsURLType(p.proposalType) =>
                        blacklistedURLs'[p.urlValue].exists = IsAddType(p.proposalType)
                 /\ IsAddressType(p.proposalType) =>
                        blacklistedAddresses'[p.addressValue].exists = IsAddType(p.proposalType)]_vars

\* C7: a voter's second vote on a proposal changes nothing, hasVotedOnProposal
\* never returns to false, and totalVoters is the number of distinct voters
\* and the sum of yesVotes and noVotes.
C7_OneVotePerVoter ==
    /\ [](\A i \in ProposalIds :
            /\ proposals[i].totalVoters = Cardinality(proposals[i].hasVoted)
            /\ proposals[i].totalVoters = proposals[i].yesVotes + proposals[i].noVotes)
    /\ [][/\ \A i \in ProposalIds, v \in Users :
                hasVotedOnProposal(i, v) => hasVotedOnProposal(i, v)'
          /\ vars' # vars => \A v \in Users, i \in ProposalIds, b \in BOOLEAN :
                Vote(v, i, b) =>
                    /\ ~hasVotedOnProposal(i, v)
                    /\ proposals'[i].totalVoters = proposals[i].totalVoters + 1]_vars

\* Both users have voted on a proposal that is still open for voting.
C7_Witness ==
    \E i \in Existing :
        /\ proposals[i].hasVoted = Users
        /\ proposals[i].yesVotes = 1 /\ proposals[i].noVotes = 1
        /\ proposals[i].status = "Active" /\ now < proposals[i].votingPeriodEnd

\* The three tallies of a proposal.
Tallies(p) == <<p.yesVotes, p.noVotes, p.totalVoters>>

\* C8: a vote changes something only on an existing Active proposal before
\* votingPeriodEnd, so the tallies are frozen once the clock has reached
\* votingPeriodEnd or the proposal is resolved.
C8_TalliesFinal ==
    [][/\ vars' # vars => \A v \in Users, i \in {0} \cup ProposalIds, b \in BOOLEAN :
            Vote(v, i, b) =>
                /\ i \in Existing
                /\ proposals[i].status = "Active"
                /\ now < proposals[i].votingPeriodEnd
       /\ \A i \in Existing :
            (now >= proposals[i].votingPeriodEnd \/ proposals[i].status # "Active") =>
                Tallies(proposals'[i]) = Tallies(proposals[i])]_vars

\* Votes were cast, the voting period is over and the proposal is not yet
\* resolved: the tallies the resolution will read.
C8_Witness ==
    \E i \in Existing :
        /\ proposals[i].totalVoters = 2
        /\ now >= proposals[i].votingPeriodEnd
        /\ proposals[i].status = "Active"

Max(a, b) == IF a >= b THEN a ELSE b

\* C9: a created proposal has votingPeriodEnd = creationTimestamp +
\* max(requested duration, minVotingPeriod at creation), and neither
\* timestamp changes afterwards.
C9_VotingPeriodEnd ==
    [][/\ nextProposalId' # nextProposalId =>
            \A s \in Users, t \in ProposalType, u \in UrlInputs, a \in AddressInputs,
               d \in DescriptionInputs, n \in DurationInputs :
                CreateProposal(s, t, u, a, d, n) =>
                    /\ proposals'[nextProposalId].creationTimestamp = now
                    /\ proposals'[nextProposalId].votingPeriodEnd =
                           now + Max(n, minVotingPeriod)
       /\ \A i \in Existing :
            /\ proposals'[i].creationTimestamp = proposals[i].creationTimestamp
            /\ proposals'[i].votingPeriodEnd = proposals[i].votingPeriodEnd]_vars

\* A proposal created in the second block runs for two time units: a request
\* of 0 or 1 raised to a minimum of 2, or a request of 2 kept.
C9_Witness ==
    \E i \in Existing :
        /\ proposals[i].creationTimestamp = 1
        /\ proposals[i].votingPeriodEnd = 3

\* C10 as claimed: in every state every proposal has votingPeriodEnd >=
\* creationTimestamp + the minimum voting period configured now.
C10_EndCoversCurrentMinimum ==
    \A i \in Existing :
        proposals[i].votingPeriodEnd >= proposals[i].creationTimestamp + minVotingPeriod

\* C10 as amended: every proposal is created with votingPeriodEnd >=
\* creationTimestamp + the minimum voting period configured at its creation,
\* which is at least 1, and updateVotingParameters changes no proposal.
C10_EndCoversMinimumAtCreation ==
    /\ [](\A i \in Existing :
            proposals[i].votingPeriodEnd >= proposals[i].creationTimestamp + 1)
    /\ [][/\ nextProposalId' # nextProposalId =>
                proposals'[nextProposalId].votingPeriodEnd >=
                    proposals'[nextProposalId].creationTimestamp + minVotingPeriod
          /\ minVotingPeriod' # minVotingPeriod => proposals' = proposals]_vars

\* The owner has raised the minimum above the voting period of a proposal
\* created earlier.
C10_Witness ==
    \E i \in Existing :
        proposals[i].votingPeriodEnd < proposals[i].creationTimestamp + minVotingPeriod

\* What a call of createProposal leaves alone, whether it succeeds or reverts:
\* the clock, the balances, the owner and the proposals created before. Only
\* steps that keep these can be calls of createProposal.
CreateFrame ==
    /\ now' = now /\ balanceOf' = balanceOf /\ owner' = owner
    /\ \A i \in Existing : proposals'[i] = proposals[i]

\* The two checks of C11 on a caller and a proposal type.
PassesGate(sender, type) ==
    /\ IsAddType(type) => balanceOf[sender] >= minProposerTokenHoldings
    /\ IsRemoveType(type) => sender = owner

\* C11: a proposal of an Add type is created only by a caller whose balance at
\* the call is at least minProposerTokenHoldings, a proposal of a Remove type
\* only by the engine's owner at the call; a createProposal call that fails
\* either check changes nothing.
C11_CreationGate ==
    [][/\ nextProposalId' # nextProposalId =>
            /\ proposals'[nextProposalId].id = nextProposalId
            /\ PassesGate(proposals'[nextProposalId].proposer,
                          proposals'[nextProposalId].proposalType)
       /\ (vars' # vars /\ CreateFrame) =>
            \A s \in Users, t \in ProposalType :
                ~PassesGate(s, t) =>
                    \A u \in UrlInputs, a \in AddressInputs, d \in DescriptionInputs,
                       n \in DurationInputs : ~CreateProposal(s, t, u, a, d, n)]_vars

\* The first owner has handed over both the token and the engine: the new
\* owner created a Remove proposal, and the first owner can create nothing.
C11_Witness ==
    \E i \in Existing :
        /\ proposals[i].proposer = "bob" /\ IsRemoveType(proposals[i].proposalType)
        /\ owner = "bob"
        /\ balanceOf["alice"] < minProposerTokenHoldings

\* Whether exactly the target that the type asks for is populated.
TargetMatchesType(type, url, address) ==
    /\ IsURLType(type) => (url # "" /\ address = ZeroAddress)
    /\ IsAddressType(type) => (address # ZeroAddress /\ url = "")

\* C12: every stored proposal has a non-empty description and exactly the
\* target of its type's category populated; createProposal with an empty
\* description, a zero duration or a target that does not match the type
\* changes nothing.
C12_WellFormedProposals ==
    /\ [](\A i \in Existing :
            /\ proposals[i].description # ""
            /\ TargetMatchesType(proposals[i].proposalType, proposals[i].urlValue,
                                 proposals[i].addressValue))
    /\ [][(vars' # vars /\ CreateFrame) =>
            \A t \in ProposalType, u \in UrlInputs, a \in AddressInputs,
               d \in DescriptionInputs, n \in DurationInputs :
                (d = "" \/ n = 0 \/ ~TargetMatchesType(t, u, a)) =>
                    \A s \in Users : ~CreateProposal(s, t, u, a, d, n)]_vars

\* A proposal of the Address category is stored.
C12_Witness ==
    \E i \in Existing :
        /\ IsAddressType(proposals[i].proposalType)
        /\ proposals[i].addressValue = "carol" /\ proposals[i].urlValue = ""

\* C13: an add goes through only for a key that is not blacklisted and leaves
\* it blacklisted; a remove goes through only for a key that is blacklisted
\* and leaves it not blacklisted; any other add or remove changes nothing.
C13_AddRemoveOnce ==
    [][chainVars' # chainVars =>
          \A s \in Users, p \in ProposerInputs :
              /\ \A u \in UrlInputs :
                    /\ AddURL(s, u, p) =>
                          ~isURLBlacklisted(u) /\ isURLBlacklisted(u)'
                    /\ RemoveURL(s, u, p) =>
                          isURLBlacklisted(u) /\ ~isURLBlacklisted(u)'
              /\ \A a \in AddressInputs :
                    /\ AddAddress(s, a, p) =>
                          ~isAddressBlacklisted(a) /\ isAddressBlacklisted(a)'
                    /\ RemoveAddress(s, a, p) =>
                          isAddressBlacklisted(a) /\ ~isAddressBlacklisted(a)']_vars

\* An address was added in the first block, and a URL in the second while the
\* address entry of the first block is still there.
C13_Witness ==
    /\ isURLBlacklisted("evil.io") /\ blacklistedURLs["evil.io"].timestamp = 1
    /\ isAddressBlacklisted("carol") /\ blacklistedAddresses["carol"].timestamp = 0

\* C14: an add or remove of the registry changes something only when its
\* caller is the proposalVotingContract of that moment; a call by anyone else,
\* the registry's owner and an earlier authorized caller included, changes
\* nothing.
C14_OnlyAuthorizedCaller ==
    [][chainVars' # chainVars =>
          \A s \in Users, p \in ProposerInputs :
              /\ \A u \in UrlInputs :
                    (AddURL(s, u, p) \/ RemoveURL(s, u, p)) => s = proposalVotingContract
              /\ \A a \in AddressInputs :
                    (AddAddress(s, a, p) \/ RemoveAddress(s, a, p)) =>
                        s = proposalVotingContract]_vars

\* The owner has handed the authorization to the other user, who blacklisted
\* a URL: the owner, authorized before, is neither now.
C14_Witness ==
    /\ registryOwner = "alice" /\ proposalVotingContract = "bob"
    /\ isURLBlacklisted("evil.io") /\ blacklistedURLs["evil.io"].proposer = "bob"

\* Whether some proposal of the given type on the given target is Executed.
ExecutedOn(type, url, address) ==
    \E i \in Existing :
        /\ proposals[i].proposalType = type /\ proposals[i].status = "Executed"
        /\ proposals[i].urlValue = url /\ proposals[i].addressValue = address

\* Whether this step makes some proposal of the given type on the given
\* target Executed.
BecomesExecuted(type, url, address) ==
    \E i \in Existing :
        /\ proposals[i].proposalType = type
        /\ proposals[i].urlValue = url /\ proposals[i].addressValue = address
        /\ proposals[i].status # "Executed" /\ proposals'[i].status = "Executed"

\* C15: every blacklisted key is the target of an Executed Add proposal, and a
\* key stops being blacklisted only in the step that makes a Remove proposal
\* on it Executed.
C15_OnlyExecutedProposals ==
    /\ [](/\ \A u \in UrlInputs :
               isURLBlacklisted(u) => ExecutedOn("AddURL", u, ZeroAddress)
          /\ \A a \in AddressInputs :
               isAddressBlacklisted(a) => ExecutedOn("AddAddress", "", a))
    /\ [][/\ \A u \in UrlInputs :
               (isURLBlacklisted(u) /\ ~isURLBlacklisted(u)') =>
                   BecomesExecuted("RemoveURL", u, ZeroAddress)
          /\ \A a \in AddressInputs :
               (isAddressBlacklisted(a) /\ ~isAddressBlacklisted(a)') =>
                   BecomesExecuted("RemoveAddress", "", a)]_vars

\* C16: a batch check returns, for a list of keys, the list of the same length
\* whose i-th element is isURLBlacklisted / isAddressBlacklisted of the i-th
\* key, false for a key that is not blacklisted, and changes nothing on chain.
C16_BatchCheck ==
    [][batchResult' # batchResult =>
          /\ Len(batchResult'.output) = Len(batchResult'.input)
          /\ \A i \in 1..Len(batchResult'.input) :
                batchResult'.output[i] =
                    IF batchResult'.call = "batchCheckURLs"
                    THEN isURLBlacklisted(batchResult'.input[i])
                    ELSE isAddressBlacklisted(batchResult'.input[i])
          /\ UNCHANGED <<chainVars, returnedIds>>]_vars

\* A blacklisted URL followed by the empty URL, which is never blacklisted,
\* was checked.
C16_Witness ==
    /\ batchResult.call = "batchCheckURLs"
    /\ batchResult.input = <<"evil.io", "">>
    /\ batchResult.output = <<TRUE, FALSE>>

\* The calls reserved to the owner go through for the owner of the moment.
OwnerHasRights ==
    /\ \A h \in 0..TokenSupply :
          ENABLED (/\ UpdateMinProposerTokenHoldings(owner, h)
                   /\ minProposerTokenHoldings' = h)
    /\ \A t \in ParameterInputs :
          (t[1] > 0 /\ t[3] \in 1..100) =>
              ENABLED (/\ UpdateVotingParameters(owner, t[1], t[2], t[3])
                       /\ minVotingPeriod' = t[1]
                       /\ minVotesForApproval' = t[2]
                       /\ approvalMajorityPercentage' = t[3])
    /\ \A r \in RegistryInputs \ {ZeroAddress, blacklistRegistry} :
          ENABLED (UpdateBlacklistRegistry(owner, r) /\ blacklistRegistry' = r)
    /\ \A o \in Users \ {owner} :
          ENABLED (TransferOwnership(owner, o) /\ owner' = o)
    /\ \A i \in Existing :
          (/\ proposals[i].status = "Approved"
           /\ blacklistRegistry = BlacklistRegistryAddress
           /\ proposalVotingContract = ProposalVotingAddress
           /\ TargetBlacklisted(proposals[i]) = IsRemoveType(proposals[i].proposalType)) =>
              ENABLED (/\ ExecuteApprovedProposal(owner, i)
                       /\ proposals'[i].status = "Executed")

\* C17: a call of executeApprovedProposal, updateVotingParameters,
\* updateMinProposerTokenHoldings, updateBlacklistRegistry or transferOwnership
\* by anyone but the owner of the moment changes nothing, and each of them
\* goes through for the owner of the moment: after transferOwnership that is
\* the new owner and no longer the previous one.
C17_OwnerRights ==
    /\ []OwnerHasRights
    /\ [][chainVars' # chainVars =>
            \A s \in Users \ {owner} :
                /\ \A i \in {0} \cup ProposalIds : ~ExecuteApprovedProposal(s, i)
                /\ \A t \in ParameterInputs : ~UpdateVotingParameters(s, t[1], t[2], t[3])
                /\ \A h \in 0..TokenSupply : ~UpdateMinProposerTokenHoldings(s, h)
                /\ \A r \in RegistryInputs : ~UpdateBlacklistRegistry(s, r)
                /\ \A o \in OwnerInputs : ~TransferOwnership(s, o)]_vars

\* The engine was handed to the second user after the proposal was resolved in
\* the second block, and it is executed, the engine points at another registry
\* and the token gate is open: calls reserved to the owner went through under
\* both owners.
C17_Witness ==
    /\ owner = "bob"
    /\ proposals[1].status = "Executed"
    /\ blacklistRegistry = OtherRegistryAddress
    /\ minProposerTokenHoldings = 0

\* A Date that toDate took from the wall clock, with its value left out.
WithoutFallback(date) == IF date.fallback THEN [date EXCEPT !.ms = 0] ELSE date

\* The mirror with the fallback wall-clock timestamps left out.
Comparable(m) ==
    [entries |-> [k \in 1..Len(m.entries) |->
                    [m.entries[k] EXCEPT !.timestamp = WithoutFallback(@)]],
     proposals |-> [k \in 1..Len(m.proposals) |->
                    [m.proposals[k] EXCEPT !.creationTimestamp = WithoutFallback(@),
                                           !.votingPeriodEnd = WithoutFallback(@)]],
     votes |-> [k \in 1..Len(m.votes) |->
                    [m.votes[k] EXCEPT !.timestamp = WithoutFallback(@)]]]

\* No two records of the mirror have the same proposalId, (proposalId, voter)
\* or blacklist value.
OneRecordPerKey(m) ==
    /\ \A j, k \in 1..Len(m.entries) : m.entries[j].value = m.entries[k].value => j = k
    /\ \A j, k \in 1..Len(m.proposals) :
           m.proposals[j].proposalId = m.proposals[k].proposalId => j = k
    /\ \A j, k \in 1..Len(m.votes) :
           (m.votes[j].proposalId = m.votes[k].proposalId
                /\ m.votes[j].voter = m.votes[k].voter) => j = k

C19_ResumesAfterRestart ==
    <>[](\A k \in 1..Len(chainLog) : k \in handled)

\* The tallies and the status of the mirrored proposals.
TalliesAndStatus(m) ==
    [k \in 1..Len(m.proposals) |->
        [proposalId |-> m.proposals[k].proposalId, yesVotes |-> m.proposals[k].yesVotes,
         noVotes |-> m.proposals[k].noVotes, status |-> m.proposals[k].status]]

\* C20 as claimed: the handlers of one proposal's events take effect in
\* emission order, so once every delivered handler has finished, the mirror's
\* tallies and status are those that the events leave when handled one after
\* another.
C20_SerializedPerProposal ==
    (cursor = Len(chainLog) /\ inflight = {}) =>
        TalliesAndStatus(mirror) = TalliesAndStatus(Replay(chainLog))

Range(list) == {list[k] : k \in 1..Len(list)}

\* Whether a list of numbers is strictly ascending (and so without duplicates).
Ascending(list) == \A j, k \in 1..Len(list) : j < k => list[j] < list[k]

MirrorHasTallies(m, proposalId) ==
    /\ \E k \in 1..Len(m.proposals) : m.proposals[k].proposalId = proposalId
    /\ \A k \in 1..Len(m.proposals) : m.proposals[k].proposalId = proposalId =>
           /\ m.proposals[k].status = proposals[proposalId].status
           /\ m.proposals[k].yesVotes = proposals[proposalId].yesVotes
           /\ m.proposals[k].noVotes = proposals[proposalId].noVotes
           /\ m.proposals[k].totalVoters = proposals[proposalId].totalVoters

\* Whether the mirror holds the value as an active entry.
MirrorActive(m, value) ==
    \E k \in 1..Len(m.entries) : m.entries[k].value = value /\ m.entries[k].isActive

\* A value is active in the mirror exactly when it is blacklisted on chain, as
\* a URL or as an address.
MirrorHasBlacklist(m) ==
    \A value \in DOMAIN blacklistedURLs \cup DOMAIN blacklistedAddresses :
        MirrorActive(m, value) <=>
            \/ value \in DOMAIN blacklistedURLs /\ isURLBlacklisted(value)
            \/ value \in DOMAIN blacklistedAddresses /\ isAddressBlacklisted(value)

\* C23 as claimed: where every event was delivered in emission order and
\* earlier events were delivered again at later moments, the mirror has the
\* status and the tallies of every proposal and the active flag of every
\* blacklist value as the chain has them.
C23_RedeliveryTolerated ==
    cursor = Len(chainLog) =>
        /\ \A i \in Existing : MirrorHasTallies(mirror, i)
        /\ MirrorHasBlacklist(mirror)

\* The mirror holds one record for the proposal, with the type, the target and
\* the proposer that the chain holds.
MirrorHasProposal(m, proposalId) ==
    /\ Cardinality({k \in 1..Len(m.proposals) : m.proposals[k].proposalId = proposalId}) = 1
    /\ \A k \in 1..Len(m.proposals) : m.proposals[k].proposalId = proposalId =>
           /\ m.proposals[k].proposalType = proposals[proposalId].proposalType
           /\ m.proposals[k].urlValue = proposals[proposalId].urlValue
           /\ m.proposals[k].addressValue = proposals[proposalId].addressValue
           /\ m.proposals[k].proposer = proposals[proposalId].proposer

\* The mirror holds exactly one Vote record for each vote cast on chain, and
\* none else.
MirrorHasVotes(m) ==
    \A i \in ProposalIds, voter \in Users :
        Cardinality({k \in 1..Len(m.votes) :
                        m.votes[k].proposalId = i /\ m.votes[k].voter = voter})
            = IF i \in Existing /\ hasVotedOnProposal(i, voter) THEN 1 ELSE 0

\* C24 as claimed: where every event was delivered once, in emission order,
\* each handler ending before the next starts, the mirror agrees with the
\* chain after the last event: the type, target, proposer, status and tallies
\* of every proposal, one Vote record per vote, and a value active in the
\* mirror exactly when it is blacklisted on chain.
C24_MirrorAgreesInOrder ==
    cursor = Len(chainLog) =>
        /\ \A i \in Existing : MirrorHasProposal(mirror, i) /\ MirrorHasTallies(mirror, i)
        /\ MirrorHasVotes(mirror)
        /\ MirrorHasBlacklist(mirror)

\* C25 as claimed: the handler of a delivered event leaves the mirror either
\* with all the writes of the event or as it was before the delivery, also
\* where the handler fails part-way.
C25_HandlersAllOrNothing ==
    [][cursor' = cursor + 1 =>
          \/ mirror' = mirror
          \/ \E w \in WallClockInputs :
                 mirror' = ApplyEvent(mirror, chainLog[cursor + 1], w)]_vars

\* The records that the mirror holds for a value as an entry of a type.
MirrorEntries(m, type, value) ==
    {m.entries[k] : k \in {j \in 1..Len(m.entries) :
                              m.entries[j].type = type /\ m.entries[j].value = value}}

\* C26 as claimed: on chain a call that changes the URL entries leaves every
\* address entry as it was, and the other way round; in the mirror the
\* handling of a URL's EntryAdded or EntryRemoved leaves the record of every
\* address as it was (type, proposer, active flag), and the other way round,
\* also where the URL's text is the textual form of the address.
C26_DisjointNamespaces ==
    [][/\ blacklistedURLs' # blacklistedURLs => blacklistedAddresses' = blacklistedAddresses
       /\ blacklistedAddresses' # blacklistedAddresses => blacklistedURLs' = blacklistedURLs
       /\ (cursor' = cursor + 1 /\ chainLog[cursor + 1].name \in {"EntryAdded", "EntryRemoved"}) =>
             LET other == IF EntryTypeOf(chainLog[cursor + 1]) = "URL" THEN "Address" ELSE "URL"
             IN \A value \in DOMAIN blacklistedURLs \cup DOMAIN blacklistedAddresses :
                    MirrorEntries(mirror', other, value) = MirrorEntries(mirror, other, value)]_vars

\* The governance parameters of the engine.
GovernanceParameters ==
    <<minVotingPeriod, minVotesForApproval, approvalMajorityPercentage,
      minProposerTokenHoldings, owner, blacklistRegistry>>

EventsOf(proposalId) ==
    SelectSeq(chainLog, LAMBDA e :
        /\ e.name \in {"ProposalCreated", "VoteCast", "ProposalStatusUpdated", "ProposalExecuted"}
        /\ e.proposalId = proposalId)

\* The place of an event in the history of its proposal: creation, votes,
\* resolution, execution, the status change of the execution; 0 for a status
\* change that is none of these.
Phase(e) ==
    IF e.name = "ProposalCreated" THEN 1
    ELSE IF e.name = "VoteCast" THEN 2
    ELSE IF e.name = "ProposalExecuted" THEN 4
    ELSE IF e.oldStatus = EnumNumber(statusMap, "Active")
            /\ e.newStatus \in {EnumNumber(statusMap, "Approved"), EnumNumber(statusMap, "Rejected")}
    THEN 3
    ELSE IF e.oldStatus = EnumNumber(statusMap, "Approved")
            /\ e.newStatus = EnumNumber(statusMap, "Executed")
    THEN 5
    ELSE 0

\* The events of one proposal in the order of the lifecycle.
LifecycleOrder(es) ==
    /\ Len(es) > 0 /\ Phase(es[1]) = 1
    /\ \A k \in 1..Len(es) : Phase(es[k]) # 0
    /\ \A j, k \in 1..Len(es) :
           j < k => \/ Phase(es[j]) < Phase(es[k])
                    \/ Phase(es[j]) = 2 /\ Phase(es[k]) = 2
    /\ \A k \in 1..Len(es) :
           /\ Phase(es[k]) = 2 =>
                 /\ es[k].yesVotes = (IF Phase(es[k - 1]) = 2 THEN es[k - 1].yesVotes ELSE 0)
                                         + (IF es[k].support THEN 1 ELSE 0)
                 /\ es[k].noVotes = (IF Phase(es[k - 1]) = 2 THEN es[k - 1].noVotes ELSE 0)
                                        + (IF es[k].support THEN 0 ELSE 1)
           /\ Phase(es[k]) = 4 =>
                 /\ \E j \in 1..(k - 1) :
                        Phase(es[j]) = 3 /\ es[j].newStatus = EnumNumber(statusMap, "Approved")
                 /\ k < Len(es) /\ Phase(es[k + 1]) = 5
           /\ Phase(es[k]) = 5 => Phase(es[k - 1]) = 4

\* The registry's event stands right before the ProposalExecuted of the
\* proposal that it carries out, and only there.
RegistryEventsInPlace ==
    \A k \in 1..Len(chainLog) :
        /\ chainLog[k].name = "ProposalExecuted" =>
              /\ k > 1
              /\ chainLog[k - 1].name =
                     (IF chainLog[k].type \in {EnumNumber(proposalTypeMap, "AddURL"),
                                                EnumNumber(proposalTypeMap, "AddAddress")}
                      THEN "EntryAdded" ELSE "EntryRemoved")
              /\ EntryValueOf(chainLog[k - 1]) =
                     (IF EntryTypeOf(chainLog[k - 1]) = "URL" THEN chainLog[k].url
                      ELSE chainLog[k].address)
        /\ chainLog[k].name \in {"EntryAdded", "EntryRemoved"} =>
              k < Len(chainLog) /\ chainLog[k + 1].name = "ProposalExecuted"

\* C28: the events of each proposal are its ProposalCreated, then VoteCast
\* events that carry the tallies right after their vote, then one
\* ProposalStatusUpdated from Active to Approved or Rejected, then, for an
\* Approved proposal that is executed, the registry's EntryAdded or
\* EntryRemoved, ProposalExecuted and ProposalStatusUpdated from Approved to
\* Executed; events are only ever added, and a call that fails adds none.
C28_EventOrder ==
    /\ [](/\ \A i \in Existing : LifecycleOrder(EventsOf(i))
          /\ \A i \in ProposalIds \ Existing : EventsOf(i) = <<>>
          /\ RegistryEventsInPlace)
    /\ [][/\ Len(chainLog') >= Len(chainLog)
          /\ SubSeq(chainLog', 1, Len(chainLog)) = chainLog
          /\ chainVars' = chainVars => chainLog' = chainLog
          /\ (chainLog' # chainLog /\ chainLog'[Len(chainLog')].name = "VoteCast") =>
                LET e == chainLog'[Len(chainLog')]
                IN /\ e.yesVotes = proposals'[e.proposalId].yesVotes
                   /\ e.noVotes = proposals'[e.proposalId].noVotes
                   /\ proposals'[e.proposalId].totalVoters
                          = proposals[e.proposalId].totalVoters + 1]_vars

\* A proposal was voted on twice, approved and executed: its six events and
\* the registry's event are all the events there are.
C28_Witness ==
    /\ Len(EventsOf(1)) = 6
    /\ proposals[1].status = "Executed"
    /\ proposals[1].yesVotes = 2
    /\ Len(chainLog) = 7
    /\ chainLog[5].name = "EntryAdded"

\* The Executed proposals of a type for a target key.
ExecutedFor(type, key) ==
    {i \in Existing :
        /\ proposals[i].status = "Executed"
        /\ proposals[i].proposalType = type
        /\ (IF type \in {"AddURL", "RemoveURL"} THEN proposals[i].urlValue
            ELSE proposals[i].addressValue) = key}

\* Executed Add proposals for the key minus Executed Remove proposals for it.
ExecutedBalance(add, remove, key) ==
    Cardinality(ExecutedFor(add, key)) - Cardinality(ExecutedFor(remove, key))

\* C29: while only the engine mutates the registry, the Executed Add
\* proposals for a key outnumber the Executed Remove proposals for it by 0 or
\* by 1, and by 1 exactly when the key is blacklisted; an Approved Add proposal
\* for a key that is blacklisted stays Approved whatever is called.
C29_ExecutedAlternate ==
    /\ [](/\ \A u \in UrlInputs :
                /\ ExecutedBalance("AddURL", "RemoveURL", u) \in {0, 1}
                /\ ExecutedBalance("AddURL", "RemoveURL", u) = 1 <=> isURLBlacklisted(u)
          /\ \A a \in AddressInputs :
                /\ ExecutedBalance("AddAddress", "RemoveAddress", a) \in {0, 1}
                /\ ExecutedBalance("AddAddress", "RemoveAddress", a) = 1
                       <=> isAddressBlacklisted(a))
    /\ [][\A i \in Existing :
             (/\ proposals[i].status = "Approved"
              /\ \/ proposals[i].proposalType = "AddURL"
                     /\ isURLBlacklisted(proposals[i].urlValue)
                 \/ proposals[i].proposalType = "AddAddress"
                     /\ isAddressBlacklisted(proposals[i].addressValue))
                 => proposals'[i] = proposals[i]]_vars

\* Two Approved proposals to add the same URL were made; one was executed and
\* the other one is still Approved.
C29_Witness ==
    /\ nextProposalId > 2
    /\ proposals[1].proposalType = "AddURL" /\ proposals[2].proposalType = "AddURL"
    /\ proposals[1].urlValue = proposals[2].urlValue
    /\ proposals[2].status = "Executed" /\ proposals[1].status = "Approved"
    /\ isURLBlacklisted(proposals[1].urlValue)

\* C30: any two mints of the faucet to one address are at least a cooldown
\* period apart, however the POST /claim requests overlap.
C30_OneMintPerCooldown ==
    \A j, k \in 1..Len(minted) :
        (j < k /\ minted[j].to = minted[k].to) =>
            minted[k].timestamp - minted[j].timestamp >= FAUCET_COOLDOWN_MS

====
